---- MODULE Spec2Model ----
(***************************************************************************)
(* A model of the soundraw-game-bgm MCP server: the Soundraw client        *)
(* (submit, poll, extract), the parameter mappers (energy profile, energy  *)
(* preset) and the four tool handlers that compose them.                   *)
(*                                                                         *)
(* Numbers that the code divides (durations, segment boundaries) are exact *)
(* rationals <<numerator, denominator>> in lowest terms.  JavaScript       *)
(* doubles compute d/4, d/2 and (d/4)*3 exactly for every duration of the  *)
(* grid used here, so the rational is the value the code produces.         *)
(***************************************************************************)
EXTENDS Integers, Sequences, FiniteSets, TLC

VARIABLES
    \* ---- the parameter mappers and result extraction, called directly
    fn,         \* which function is called ("getEnergyLevels", ...)
    arg,        \* its arguments
    ret,        \* <<>> before the call, <<value>> after it
    \* ---- one tool invocation and the job(s) it submits
    pc,         \* where the handler is suspended
    tool,       \* tool name of the invocation
    input,      \* the parsed input record
    analysis,   \* the analyzer's result (<<>> before / without one)
    req,        \* the request body of the submit POST in flight / last sent
    requestId,  \* request id returned by the submit POST (0: none)
    attempt,    \* pollForResult's loop counter
    jobState,   \* the client's view of the job: none/SUBMITTED/DONE/FAILED/TIMEOUT/ERROR
    remote,     \* the remote job's status, owned by the service
    lastAnswer, \* the last 2xx poll answer (<< >> before any)
    pollResult, \* what pollForResult returned (<< >> if it has not returned)
    posts,      \* sequence of endpoints POSTed to by this invocation
    oracleCalls,\* number of text-completion requests issued
    polls,      \* GETs of the result resource issued for the current job
    sleeps,     \* sleeps started for the current job
    nonTerminal,\* 2xx poll answers of the current job that were not done/failed
    lastIo,     \* the last thing pollForResult did: "none", "poll", "sleep"
    lastHttp,   \* the last HTTP answer from the service: its request's method, its status
    layerIdx,   \* adaptive_layer_control: position in layers_to_keep
    layers,     \* adaptive_layer_control: results collected so far
    thrown,     \* the error the handler ended in (<< >> if none)
    output,     \* the handler's return value (<< >> if none)
    \* ---- the process
    soundrawKey,\* process.env.SOUNDRAW_API_KEY is set
    deepseekKey,\* process.env.DEEPSEEK_API_KEY is set
    client,     \* the module-level oracle client handle has been constructed
    \* ---- several invocations in flight in the one process
    calls,      \* per invocation: where it is suspended, its counters, its outcome
    jobs,       \* the service's jobs: jobs[r] tells whether request id r is not given
                \* out yet ("none"), or names a job the service finishes ("running")
                \* or one it never finishes ("stuck")
    handles     \* number of oracle client handles constructed so far

mapperVars == <<fn, arg, ret>>
jobVars == <<requestId, attempt, jobState, remote, lastAnswer, pollResult, polls, sleeps,
             nonTerminal, lastIo, lastHttp>>
envVars == <<soundrawKey, deepseekKey>>
toolVars == <<pc, tool, input, analysis, req, posts, oracleCalls, layerIdx, layers,
              thrown, output, jobVars, envVars, client>>
serverVars == <<calls, jobs, handles>>
vars == <<mapperVars, toolVars, serverVars>>

----------------------------------------------------------------------------
(* Exact rational arithmetic for JavaScript numbers.                       *)

RECURSIVE GCD(_, _)
GCD(a, b) == IF b = 0 THEN a ELSE GCD(b, a % b)

Abs(n) == IF n < 0 THEN -n ELSE n

\* the rational n/d (d > 0) in lowest terms
Rat(n, d) == LET g == GCD(Abs(n), d) IN <<n \div g, d \div g>>

Num(n) == <<n, 1>>

\* x / k and x * k for a positive integer literal k
Div(x, k) == Rat(x[1], x[2] * k)
Mul(x, k) == Rat(x[1] * k, x[2])

Less(x, y) == x[1] * y[2] < y[1] * x[2]

----------------------------------------------------------------------------
(* Closed vocabularies and schema limits (types/index.ts).                 *)

SOUNDRAW_ENERGY_LEVELS == <<"Muted", "Low", "Medium", "High", "Very High">>
SOUNDRAW_FILE_FORMATS == {"m4a", "mp3", "wav"}

\* duration_seconds: z.number().min(10).max(300)
MinDuration == 10
MaxDuration == 300
\* getEnergyPreset's default durationSeconds, the only one its caller uses
DefaultPresetDuration == 60

\* Durations are drawn on a grid of 1/DurationGrid seconds.
DurationGrid == 2
Durations ==
    {Rat(n, DurationGrid) : n \in (MinDuration * DurationGrid)..(MaxDuration * DurationGrid)}

EnergyProfiles == {"building", "steady", "climax", "ambient"}
EnergyPresets == {"building", "steady", "climax", "fade_out"}
\* what a caller can pass as the keyword: the named ones, and values neither
\* switch recognizes
Keywords == EnergyProfiles \cup EnergyPresets \cup {"unknown", ""}

----------------------------------------------------------------------------
(* Parameter mappers.                                                      *)

Seg(s, e, en) == [start |-> s, end |-> e, energy |-> en]

\* a plausible slip: the third segment of 'building' ends at the midpoint
getEnergyLevels_gap(profile, durationSeconds) ==
    LET midpoint == Div(durationSeconds, 2)
        quarter == Div(durationSeconds, 4)
    IN  CASE profile = "building" ->
               << Seg(Num(0), quarter, "Low"),
                  Seg(quarter, midpoint, "Medium"),
                  Seg(midpoint, midpoint, "High"),
                  Seg(Mul(quarter, 3), durationSeconds, "Very High") >>
          [] profile = "climax" ->
               << Seg(Num(0), quarter, "High"),
                  Seg(quarter, durationSeconds, "Very High") >>
          [] profile = "ambient" ->
               << Seg(Num(0), durationSeconds, "Low") >>
          [] OTHER ->
               << Seg(Num(0), durationSeconds, "Medium") >>

\* a plausible slip: 'climax' splits at the midpoint and the default is Low
getEnergyLevels_levels(profile, durationSeconds) ==
    LET midpoint == Div(durationSeconds, 2)
        quarter == Div(durationSeconds, 4)
    IN  CASE profile = "building" ->
               << Seg(Num(0), quarter, "Low"),
                  Seg(quarter, midpoint, "Medium"),
                  Seg(midpoint, Mul(quarter, 3), "High"),
                  Seg(Mul(quarter, 3), durationSeconds, "Very High") >>
          [] profile = "climax" ->
               << Seg(Num(0), midpoint, "High"),
                  Seg(midpoint, durationSeconds, "Very High") >>
          [] profile = "ambient" ->
               << Seg(Num(0), durationSeconds, "Low") >>
          [] OTHER ->
               << Seg(Num(0), durationSeconds, "Low") >>

\* generate-bgm handler's getEnergyLevels(profile, durationSeconds)
getEnergyLevels(profile, durationSeconds) ==
    LET midpoint == Div(durationSeconds, 2)
        quarter == Div(durationSeconds, 4)
    IN  CASE profile = "building" ->
               << Seg(Num(0), quarter, "Low"),
                  Seg(quarter, midpoint, "Medium"),
                  Seg(midpoint, Mul(quarter, 3), "High"),
                  Seg(Mul(quarter, 3), durationSeconds, "Very High") >>
          [] profile = "climax" ->
               << Seg(Num(0), quarter, "High"),
                  Seg(quarter, durationSeconds, "Very High") >>
          [] profile = "ambient" ->
               << Seg(Num(0), durationSeconds, "Low") >>
          [] OTHER ->   \* case 'steady': default:
               << Seg(Num(0), durationSeconds, "Medium") >>

\* (variant: the presets shared with the profiles are taken from the profile
\* mapper, 'climax' included)
getEnergyPreset_asProfile(preset, durationSeconds) ==
    LET quarter == Div(durationSeconds, 4)
    IN  CASE preset = "fade_out" ->
               << Seg(Num(0), quarter, "High"),
                  Seg(quarter, Mul(quarter, 2), "Medium"),
                  Seg(Mul(quarter, 2), Mul(quarter, 3), "Low"),
                  Seg(Mul(quarter, 3), durationSeconds, "Muted") >>
          [] preset \in {"building", "climax"} ->
               getEnergyLevels(preset, durationSeconds)
          [] OTHER ->
               << Seg(Num(0), durationSeconds, "Medium") >>

\* a plausible slip: 'fade_out' ends its third segment at the full duration
getEnergyPreset_bounds(preset, durationSeconds) ==
    LET quarter == Div(durationSeconds, 4)
    IN  CASE preset = "building" ->
               << Seg(Num(0), quarter, "Low"),
                  Seg(quarter, Mul(quarter, 2), "Medium"),
                  Seg(Mul(quarter, 2), Mul(quarter, 3), "High"),
                  Seg(Mul(quarter, 3), durationSeconds, "Very High") >>
          [] preset = "climax" ->
               << Seg(Num(0), durationSeconds, "Very High") >>
          [] preset = "fade_out" ->
               << Seg(Num(0), quarter, "High"),
                  Seg(quarter, Mul(quarter, 2), "Medium"),
                  Seg(Mul(quarter, 2), durationSeconds, "Low"),
                  Seg(Mul(quarter, 3), durationSeconds, "Muted") >>
          [] OTHER ->
               << Seg(Num(0), durationSeconds, "Medium") >>

\* get-variations handler's getEnergyPreset(preset, durationSeconds = 60)
getEnergyPreset(preset, durationSeconds) ==
    LET quarter == Div(durationSeconds, 4)
    IN  CASE preset = "building" ->
               << Seg(Num(0), quarter, "Low"),
                  Seg(quarter, Mul(quarter, 2), "Medium"),
                  Seg(Mul(quarter, 2), Mul(quarter, 3), "High"),
                  Seg(Mul(quarter, 3), durationSeconds, "Very High") >>
          [] preset = "climax" ->
               << Seg(Num(0), durationSeconds, "Very High") >>
          [] preset = "fade_out" ->
               << Seg(Num(0), quarter, "High"),
                  Seg(quarter, Mul(quarter, 2), "Medium"),
                  Seg(Mul(quarter, 2), Mul(quarter, 3), "Low"),
                  Seg(Mul(quarter, 3), durationSeconds, "Muted") >>
          [] OTHER ->   \* case 'steady': default:
               << Seg(Num(0), durationSeconds, "Medium") >>

----------------------------------------------------------------------------
(* Result extraction (services/soundraw.ts).                               *)

\* a property that is absent from the JSON answer
Undefined == "<undefined>"
\* JavaScript truthiness of an optional string
Truthy(s) == s # Undefined /\ s # ""

\* a thrown Error, as a value
Throw(msg) == [threw |-> TRUE, message |-> msg]
Return(v) == [threw |-> FALSE, value |-> v]

DigitChars == <<"0", "1", "2", "3", "4", "5", "6", "7", "8", "9">>
IsDigit(c) == \E i \in 1..10 : DigitChars[i] = c
DigitVal(c) == (CHOOSE i \in 1..10 : DigitChars[i] = c) - 1
IsSpace(c) == c \in {" ", "\t", "\n"}

RECURSIVE SkipSpace(_, _)
SkipSpace(s, i) == IF i <= Len(s) /\ IsSpace(s[i]) THEN SkipSpace(s, i + 1) ELSE i

RECURSIVE ReadDigits(_, _, _)
ReadDigits(s, i, acc) ==
    IF i <= Len(s) /\ IsDigit(s[i])
    THEN ReadDigits(s, i + 1, acc * 10 + DigitVal(s[i]))
    ELSE acc

\* parseInt(s, 10) of a string given as its characters: <<n>>, or <<>> for NaN
parseInt(s) ==
    LET i == SkipSpace(s, 1)
        neg == i <= Len(s) /\ s[i] = "-"
        j == IF i <= Len(s) /\ s[i] \in {"-", "+"} THEN i + 1 ELSE i
    IN  IF j <= Len(s) /\ IsDigit(s[j])
        THEN << (IF neg THEN -1 ELSE 1) * ReadDigits(s, j, 0) >>
        ELSE << >>

\* the fallback of getAudioUrl: result.m4a_url || result.mp3_url || result.wav_url || ''
AnyUrl(result) ==
    IF Truthy(result.m4a_url) THEN result.m4a_url
    ELSE IF Truthy(result.mp3_url) THEN result.mp3_url
    ELSE IF Truthy(result.wav_url) THEN result.wav_url
    ELSE ""

\* a plausible slip: the fallback tried in the order wav, mp3, m4a
getAudioUrl_order(result, format) ==
    CASE format = "wav" /\ Truthy(result.wav_url) -> result.wav_url
      [] format = "mp3" /\ Truthy(result.mp3_url) -> result.mp3_url
      [] format \notin {"wav", "mp3"} /\ Truthy(result.m4a_url) -> result.m4a_url
      [] OTHER ->
           IF Truthy(result.wav_url) THEN result.wav_url
           ELSE IF Truthy(result.mp3_url) THEN result.mp3_url
           ELSE IF Truthy(result.m4a_url) THEN result.m4a_url
           ELSE ""

\* getAudioUrl(result, format), result present (extractResult has checked it)
getAudioUrl(result, format) ==
    CASE format = "wav" /\ Truthy(result.wav_url) -> result.wav_url
      [] format = "mp3" /\ Truthy(result.mp3_url) -> result.mp3_url
      [] format \notin {"wav", "mp3"} /\ Truthy(result.m4a_url) -> result.m4a_url
      [] OTHER -> AnyUrl(result)

\* (variant: a missing payload is passed on as an empty result)
extractResult_lenient(soundrawResult, format) ==
    IF soundrawResult.result = << >>
    THEN Return([ share_link |-> Undefined,
                  audio_url |-> "",
                  request_id |-> soundrawResult.request_id,
                  duration_seconds |-> Num(0),
                  bpm |-> << >>,
                  timestamps |-> << >> ])
    ELSE LET result == soundrawResult.result[1]
         IN  Return([ share_link |-> result.share_link,
                      audio_url |-> getAudioUrl(result, format),
                      request_id |-> soundrawResult.request_id,
                      duration_seconds |-> result.length,
                      bpm |-> parseInt(result.bpm),
                      timestamps |-> result.timestamps ])

\* extractResult(soundrawResult, format); soundrawResult.result is <<>> when absent
extractResult(soundrawResult, format) ==
    IF soundrawResult.result = << >>
    THEN Throw("No result in Soundraw response")
    ELSE LET result == soundrawResult.result[1]
         IN  Return([ share_link |-> result.share_link,
                      audio_url |-> getAudioUrl(result, format),
                      request_id |-> soundrawResult.request_id,
                      duration_seconds |-> result.length,
                      bpm |-> parseInt(result.bpm),
                      timestamps |-> result.timestamps ])

UrlOf(format) ==
    CASE format = "m4a" -> "https://cdn.soundraw.io/t.m4a"
      [] format = "mp3" -> "https://cdn.soundraw.io/t.mp3"
      [] OTHER -> "https://cdn.soundraw.io/t.wav"

\* an optional URL field: absent, empty, or populated
UrlValues(format) == {Undefined, "", UrlOf(format)}

ShareLink == "https://soundraw.io/edit_music?m=1"

----------------------------------------------------------------------------
(* Input schemas (types/index.ts).  An optional field is << >> when absent *)
(* and <<value>> when present.                                             *)

SOUNDRAW_MOODS ==
    {"Angry", "Busy & Frantic", "Dark", "Dreamy", "Elegant", "Epic", "Euphoric",
     "Fear", "Funny & Weird", "Glamorous", "Happy", "Heavy & Ponderous", "Hopeful",
     "Laid Back", "Mysterious", "Peaceful", "Restless", "Romantic", "Running",
     "Sad", "Scary", "Sentimental", "Sexy", "Smooth", "Suspense"}
SOUNDRAW_GENRES ==
    {"Acoustic", "Hip Hop", "Beats", "Funk", "Pop", "Drum n Bass", "Trap",
     "Tokyo night pop", "Rock", "Latin", "House", "Tropical House", "Ambient",
     "Orchestra", "Electro & Dance", "Electronica", "Techno & Trance",
     "Jersey Club", "Drill", "R&B", "Lofi Hip Hop", "World", "Afrobeats", "Christmas"}
SOUNDRAW_THEMES ==
    {"Ads & Trailers", "Broadcasting", "Cinematic", "Corporate", "Comedy",
     "Cooking", "Documentary", "Drama", "Fashion & Beauty", "Gaming",
     "Holiday Season", "Horror & Thriller", "Motivational & Inspiring", "Nature",
     "Photography", "Sports & Action", "Technology", "Travel", "Tutorials",
     "Vlogs", "Wedding & Romance", "Workout & Wellness"}
SOUNDRAW_STEMS == {"bc", "bs", "dr", "me", "fe", "ff"}

ToolNames ==
    {"generate_bgm", "get_bgm_variations", "adaptive_layer_control", "scene_transition_music"}

\* scene_transition_music: duration_seconds z.number().min(10).max(60)
MaxTransitionDuration == 60
\* generate_bgm: input.duration_seconds ?? 60
DefaultDuration == 60

\* z.string().url(): the strings used as share links here, and one that is no URL
IsUrl(s) == s = ShareLink

InRange(x, lo, hi) == ~Less(x, Num(lo)) /\ ~Less(Num(hi), x)
OptIn(opt, S) == opt = << >> \/ opt[1] \in S
EachIn(list, S) == \A i \in 1..Len(list) : list[i] \in S

\* GenerateBgmInputSchema.parse accepts
GenerateBgmInputValid(a) ==
    /\ a.scene # << >>
    /\ a.intensity \in {"low", "medium", "high"}
    /\ a.duration_seconds = << >> \/ InRange(a.duration_seconds[1], MinDuration, MaxDuration)
    /\ OptIn(a.file_format, SOUNDRAW_FILE_FORMATS)

\* GetVariationsInputSchema.parse accepts
GetVariationsInputValid(a) ==
    /\ IsUrl(a.share_link)
    /\ a.variation_type \in {"similar", "customize"}
    /\ a.length = << >> \/ InRange(a.length[1], MinDuration, MaxDuration)
    /\ OptIn(a.energy_preset, EnergyPresets)
    /\ a.mute_stems = << >> \/ EachIn(a.mute_stems[1], SOUNDRAW_STEMS)

\* AdaptiveLayerInputSchema.parse accepts
AdaptiveLayerInputValid(a) ==
    /\ IsUrl(a.share_link)
    /\ EachIn(a.layers_to_keep, {"backing", "bass", "drums", "melody"})
    /\ OptIn(a.file_format, SOUNDRAW_FILE_FORMATS)

\* a plausible slip: the transition's duration is checked against 10..300
SceneTransitionInputValid_long(a) ==
    /\ a.transition_type \in {"fade", "stinger", "crossfade"}
    /\ InRange(a.duration_seconds, MinDuration, MaxDuration)

\* SceneTransitionInputSchema.parse accepts
SceneTransitionInputValid(a) ==
    /\ a.transition_type \in {"fade", "stinger", "crossfade"}
    /\ InRange(a.duration_seconds, MinDuration, MaxTransitionDuration)

InputValid(t, a) ==
    CASE t = "generate_bgm" -> GenerateBgmInputValid(a)
      [] t = "get_bgm_variations" -> GetVariationsInputValid(a)
      [] t = "adaptive_layer_control" -> AdaptiveLayerInputValid(a)
      [] OTHER -> SceneTransitionInputValid(a)

\* ---- the arguments a caller sends, valid and invalid ones
GenerateBgmArgs ==
    [ scene : {<<"boss_fight">>, << >>},
      game_genre : {"dark_souls_like"},
      intensity : {"high", "extreme"},
      duration_seconds : {<< >>, <<Num(30)>>, <<Num(5)>>},
      file_format : {<< >>, <<"wav">>} ]

GetVariationsArgs ==
    [ share_link : {ShareLink, "not a url"},
      variation_type : {"similar", "customize"},
      length : {<< >>, <<Num(45)>>},
      energy_preset : {<< >>, <<"fade_out">>},
      mute_stems : {<< >>, << << >> >>, << <<"dr">> >>} ]

\* adaptive_layer_control asks for at most MaxLayers layers
MaxLayers == 2
RequestedLayerNames == {"drums", "melody", "unknown_layer"}
LayerLists == UNION {[1..n -> RequestedLayerNames] : n \in 0..MaxLayers}

AdaptiveLayerArgs ==
    [ share_link : {ShareLink},
      layers_to_keep : LayerLists,
      file_format : {<<"mp3">>} ]

SceneTransitionArgs ==
    [ from_scene : {"village"},
      to_scene : {"boss battle"},
      transition_type : {"fade", "jump"},
      duration_seconds : {Num(20), Num(90)} ]

ArgsOf(t) ==
    CASE t = "generate_bgm" -> GenerateBgmArgs
      [] t = "get_bgm_variations" -> GetVariationsArgs
      [] t = "adaptive_layer_control" -> AdaptiveLayerArgs
      [] OTHER -> SceneTransitionArgs

----------------------------------------------------------------------------
(* Scene analyzer (services/deepseek.ts): validation of the parsed reply.  *)

\* a plausible slip: the vocabulary filter lets every value through
Filter_all(list, vocab) == list

\* params.moods.filter(m => SOUNDRAW_MOODS.includes(m))
Filter(list, vocab) == SelectSeq(list, LAMBDA x : x \in vocab)

\* a plausible slip: the default is added whether or not the list is empty
OrDefault_always(list, default) == Append(list, default)

\* if (params.moods.length === 0) params.moods = ['Epic']
OrDefault(list, default) == IF Len(list) = 0 THEN <<default>> ELSE list

\* a plausible slip: the defaults are substituted before the filter runs
ValidateSceneParams_defaultFirst(params) ==
    [params EXCEPT
        !.moods = Filter(OrDefault(@, "Epic"), SOUNDRAW_MOODS),
        !.genres = Filter(OrDefault(@, "Orchestra"), SOUNDRAW_GENRES),
        !.themes = Filter(OrDefault(@, "Gaming"), SOUNDRAW_THEMES)]

\* analyzeSceneForMusic, after JSON.parse
ValidateSceneParams(params) ==
    [params EXCEPT
        !.moods = OrDefault(Filter(@, SOUNDRAW_MOODS), "Epic"),
        !.genres = OrDefault(Filter(@, SOUNDRAW_GENRES), "Orchestra"),
        !.themes = OrDefault(Filter(@, SOUNDRAW_THEMES), "Gaming")]

\* analyzeTransition, after JSON.parse
ValidateTransitionParams(params) ==
    [params EXCEPT
        !.moods = OrDefault(Filter(@, SOUNDRAW_MOODS), "Suspense"),
        !.genres = OrDefault(Filter(@, SOUNDRAW_GENRES), "Orchestra"),
        !.themes = OrDefault(Filter(@, SOUNDRAW_THEMES), "Cinematic")]

\* what the oracle may send back as scene parameters (parsed JSON)
SceneReply(moods, profile) ==
    [ moods |-> moods, genres |-> <<"Orchestra">>, themes |-> <<"Gaming">>,
      tempo |-> "high", energy_profile |-> profile,
      reasoning |-> "boss fights want energy" ]
SceneReplies ==
    { SceneReply(<<"Epic", "Dark">>, "climax"), SceneReply(<<"Grimdark">>, "building") }

\* what the oracle may send back as transition parameters (parsed JSON): the
\* energy_levels may or may not span the asked duration
TransitionReply(genres, levels) ==
    [ from_mood |-> "Peaceful", to_mood |-> "Epic", moods |-> <<"Suspense", "Epic">>,
      genres |-> genres, themes |-> <<"Cinematic">>, tempo |-> "normal",
      energy_levels |-> levels, reasoning |-> "rising tension" ]
TransitionReplies ==
    { TransitionReply(<<"Orchestra">>,
                      << Seg(Num(0), Num(10), "Low"), Seg(Num(10), Num(20), "High") >>),
      TransitionReply(<< >>, << Seg(Num(0), Num(5), "Medium") >>) }

\* ---- the completion's text.  A text is a sequence of characters; the
\* character "{}" stands for the whole text of one JSON object (the object
\* is given beside the text), "null" for the JSON literal null.
\* the grave accent (U+0060), three of which make a fence marker
Grave == "U+0060"
Fence == <<Grave, Grave, Grave>>
IsBlank(c) == c \in {" ", "\t", "\n", "\r"}

RECURSIVE TrimStart(_)
TrimStart(s) == IF s # << >> /\ IsBlank(Head(s)) THEN TrimStart(Tail(s)) ELSE s

RECURSIVE TrimEnd(_)
TrimEnd(s) ==
    IF s # << >> /\ IsBlank(s[Len(s)]) THEN TrimEnd(SubSeq(s, 1, Len(s) - 1)) ELSE s

\* String.prototype.trim
Trim(s) == TrimEnd(TrimStart(s))

\* s.startsWith(prefix) from position i on
StartsWithAt(s, i, prefix) ==
    /\ i + Len(prefix) - 1 <= Len(s)
    /\ SubSeq(s, i, i + Len(prefix) - 1) = prefix

\* the length of the match of /<fence>json?\n?/ at position i (0: no match):
\* three backticks, "jso", an optional "n", an optional newline
OpenFenceMatch(s, i) ==
    IF ~StartsWithAt(s, i, Fence \o <<"j", "s", "o">>) THEN 0
    ELSE LET afterN == IF StartsWithAt(s, i + 6, <<"n">>) THEN i + 7 ELSE i + 6
             afterNl == IF StartsWithAt(s, afterN, <<"\n">>) THEN afterN + 1 ELSE afterN
         IN  afterNl - i

RECURSIVE ReplaceOpenFences(_, _)
\* s.replace(/<fence>json?\n?/g, '') from position i on
ReplaceOpenFences(s, i) ==
    IF i > Len(s) THEN << >>
    ELSE LET n == OpenFenceMatch(s, i)
         IN  IF n > 0 THEN ReplaceOpenFences(s, i + n)
             ELSE <<s[i]>> \o ReplaceOpenFences(s, i + 1)

\* s.replace(/<fence>$/g, ''): without the m flag $ is the end of the text
ReplaceEndFence(s) ==
    IF Len(s) >= 3 /\ StartsWithAt(s, Len(s) - 2, Fence)
    THEN SubSeq(s, 1, Len(s) - 3)
    ELSE s

\* let jsonStr = content.trim(); if (jsonStr.startsWith(<fence>)) { ... }
StripFence(content) ==
    LET jsonStr == Trim(content)
    IN  IF StartsWithAt(jsonStr, 1, Fence)
        THEN Trim(ReplaceEndFence(ReplaceOpenFences(jsonStr, 1)))
        ELSE jsonStr

\* JSON.parse(jsonStr): "object" (the object beside the text), "null", or
\* "SyntaxError"; white space around the one value is allowed
JsonParse(jsonStr) ==
    CASE Trim(jsonStr) = <<"{}">> -> "object"
      [] Trim(jsonStr) = <<"null">> -> "null"
      [] OTHER -> "SyntaxError"

\* the three categories the analyzers filter
CategoryFields == {"moods", "genres", "themes"}

\* params.moods.filter(...), params.genres.filter(...) and
\* params.themes.filter(...) can all be called: the parsed object has the
\* three arrays (on a missing one, .filter is a TypeError)
HasCategoryArrays(params) == CategoryFields \subseteq DOMAIN params

\* the object with an empty array put where a category is missing
WithEmptyCategories(params) ==
    [k \in DOMAIN params \cup CategoryFields |->
        IF k \in DOMAIN params THEN params[k] ELSE << >>]

\* (variant: a missing category is taken for an empty one)
analyzeSceneForMusic_fillMissing(content, object) ==
    IF content = << >> THEN Throw("No response from DeepSeek")
    ELSE IF JsonParse(StripFence(content)) = "object"
         THEN Return(ValidateSceneParams(WithEmptyCategories(object)))
         ELSE Throw("Failed to parse music parameters")

\* analyzeSceneForMusic from the completion on: content is the text, object
\* the value of its "{}".  A SyntaxError of JSON.parse, the TypeError of
\* null.moods and the TypeError of a missing array's .filter are all caught
\* and rethrown as the parse failure.
analyzeSceneForMusic(content, object) ==
    IF content = << >> THEN Throw("No response from DeepSeek")
    ELSE IF JsonParse(StripFence(content)) = "object" /\ HasCategoryArrays(object)
         THEN Return(ValidateSceneParams(object))
         ELSE Throw("Failed to parse music parameters")

\* analyzeTransition from the completion on
analyzeTransition(content, object) ==
    IF content = << >> THEN Throw("No response from DeepSeek")
    ELSE IF JsonParse(StripFence(content)) = "object" /\ HasCategoryArrays(object)
         THEN Return(ValidateTransitionParams(object))
         ELSE Throw("Failed to parse transition parameters")

\* the texts a completion may carry: a body, bare or between an opening
\* fence (with a language tag or without) and a closing fence
FenceOpenings ==
    { << >>, Fence \o <<"\n">>, Fence \o <<"j", "s", "o", "n", "\n">>,
      Fence \o <<"j", "s", "o", "n">> }
FenceClosings == { << >>, <<"\n">> \o Fence, Fence }
Bodies == { <<"{}">>, <<"null">>, <<"o", "n">>, << >> }
Contents == { o \o b \o c : o \in FenceOpenings, b \in Bodies, c \in FenceClosings }

\* the lists an oracle may put into a category: up to MaxListLen values, in
\* the vocabulary or not
MaxListLen == 2
ListsOf(values) == UNION {[1..n -> values] : n \in 0..MaxListLen}
MoodLists == ListsOf({"Epic", "Grimdark"})
GenreLists == ListsOf({"Rock", "Dungeon Synth"})
ThemeLists == ListsOf({"Gaming", "Roguelike"})

\* the object r without its field f
Without(r, f) == [k \in DOMAIN r \ {f} |-> r[k]]

\* the objects a completion's JSON may denote: every choice of the three
\* lists, and objects that lack one of them
SceneObjects ==
    { [SceneReply(m, "climax") EXCEPT !.genres = g, !.themes = t] :
        m \in MoodLists, g \in GenreLists, t \in ThemeLists }
    \cup { Without(SceneReply(<<"Epic">>, "climax"), f) : f \in CategoryFields }
TransitionObjects ==
    { [TransitionReply(g, << Seg(Num(0), Num(20), "Medium") >>)
          EXCEPT !.moods = m, !.themes = t] :
        m \in MoodLists, g \in GenreLists, t \in ThemeLists }
    \cup { Without(TransitionReply(<<"Rock">>, << Seg(Num(0), Num(20), "Medium") >>), f) :
             f \in CategoryFields }

----------------------------------------------------------------------------
(* Requests to the generation service.  A request body has every field of  *)
(* the three request types; a field left out of the JSON is << >>.         *)

EmptyBody ==
    [ share_link |-> << >>, length |-> << >>, moods |-> << >>, genres |-> << >>,
      themes |-> << >>, tempo |-> << >>, file_format |-> << >>, mute_stems |-> << >>,
      energy_levels |-> << >> ]

\* a plausible slip: the energy levels are laid out over the default
\* duration, whatever duration was asked for
GenerateBgmParams_defaultLevels(in, musicParams) ==
    LET duration == IF in.duration_seconds = << >> THEN Num(DefaultDuration)
                    ELSE in.duration_seconds[1]
        fileFormat == IF in.file_format = << >> THEN "m4a" ELSE in.file_format[1]
    IN  [EmptyBody EXCEPT
            !.length = <<duration>>,
            !.moods = <<musicParams.moods>>,
            !.genres = <<musicParams.genres>>,
            !.themes = <<musicParams.themes>>,
            !.tempo = << <<musicParams.tempo>> >>,
            !.file_format = << <<fileFormat>> >>,
            !.energy_levels =
                << getEnergyLevels(musicParams.energy_profile, Num(DefaultDuration)) >>]

\* generate_bgm: soundrawParams
GenerateBgmParams(in, musicParams) ==
    LET duration == IF in.duration_seconds = << >> THEN Num(DefaultDuration)
                    ELSE in.duration_seconds[1]
        fileFormat == IF in.file_format = << >> THEN "m4a" ELSE in.file_format[1]
    IN  [EmptyBody EXCEPT
            !.length = <<duration>>,
            !.moods = <<musicParams.moods>>,
            !.genres = <<musicParams.genres>>,
            !.themes = <<musicParams.themes>>,
            !.tempo = << <<musicParams.tempo>> >>,
            !.file_format = << <<fileFormat>> >>,
            !.energy_levels = << getEnergyLevels(musicParams.energy_profile, duration) >>]

\* a plausible slip: the last segment is stretched to end at the duration
SceneTransitionParams_fitted(in, transitionParams) ==
    LET levels == transitionParams.energy_levels
        fitted == [i \in 1..Len(levels) |->
                     IF i = Len(levels) THEN [levels[i] EXCEPT !.end = in.duration_seconds]
                     ELSE levels[i]]
    IN  [EmptyBody EXCEPT
            !.length = <<in.duration_seconds>>,
            !.moods = <<transitionParams.moods>>,
            !.genres = <<transitionParams.genres>>,
            !.themes = <<transitionParams.themes>>,
            !.tempo = << <<transitionParams.tempo>> >>,
            !.file_format = << <<"m4a">> >>,
            !.energy_levels = <<fitted>>]

\* scene_transition_music: soundrawParams
SceneTransitionParams(in, transitionParams) ==
    [EmptyBody EXCEPT
        !.length = <<in.duration_seconds>>,
        !.moods = <<transitionParams.moods>>,
        !.genres = <<transitionParams.genres>>,
        !.themes = <<transitionParams.themes>>,
        !.tempo = << <<transitionParams.tempo>> >>,
        !.file_format = << <<"m4a">> >>,
        !.energy_levels = <<transitionParams.energy_levels>>]

\* (variant: a 'similar' request takes the preset along when one is given)
SimilarParams_withLevels(in) ==
    [EmptyBody EXCEPT
        !.share_link = <<in.share_link>>,
        !.length = in.length,
        !.mute_stems = in.mute_stems,
        !.file_format = << <<"m4a">> >>,
        !.energy_levels =
            IF in.energy_preset # << >>
            THEN << getEnergyPreset(in.energy_preset[1], Num(DefaultPresetDuration)) >>
            ELSE << >>]

\* get_bgm_variations, 'similar': the argument of createSimilarMusic
SimilarParams(in) ==
    [EmptyBody EXCEPT
        !.share_link = <<in.share_link>>,
        !.length = in.length,
        !.mute_stems = in.mute_stems,
        !.file_format = << <<"m4a">> >>]

\* (variant: the preset is laid out over the length input when there is one)
CustomizeParams_fitted(in) ==
    [EmptyBody EXCEPT
        !.share_link = <<in.share_link>>,
        !.file_format = << <<"m4a">> >>,
        !.energy_levels =
            IF in.energy_preset # << >>
            THEN << getEnergyPreset(in.energy_preset[1],
                                    IF in.length # << >> THEN in.length[1]
                                    ELSE Num(DefaultPresetDuration)) >>
            ELSE << >>,
        !.mute_stems =
            IF in.mute_stems # << >> /\ Len(in.mute_stems[1]) > 0
            THEN in.mute_stems
            ELSE << >>]

\* a plausible slip: without a preset the 'steady' levels are sent
CustomizeParams_steady(in) ==
    [EmptyBody EXCEPT
        !.share_link = <<in.share_link>>,
        !.file_format = << <<"m4a">> >>,
        !.energy_levels =
            IF in.energy_preset # << >>
            THEN << getEnergyPreset(in.energy_preset[1], Num(DefaultPresetDuration)) >>
            ELSE << getEnergyPreset("steady", Num(DefaultPresetDuration)) >>,
        !.mute_stems =
            IF in.mute_stems # << >> /\ Len(in.mute_stems[1]) > 0
            THEN in.mute_stems
            ELSE << >>]

\* get_bgm_variations, 'customize': customizeParams
CustomizeParams(in) ==
    [EmptyBody EXCEPT
        !.share_link = <<in.share_link>>,
        !.file_format = << <<"m4a">> >>,
        !.energy_levels =
            IF in.energy_preset # << >>
            THEN << getEnergyPreset(in.energy_preset[1], Num(DefaultPresetDuration)) >>
            ELSE << >>,
        !.mute_stems =
            IF in.mute_stems # << >> /\ Len(in.mute_stems[1]) > 0
            THEN in.mute_stems
            ELSE << >>]

\* a plausible slip: the 'drums' entry mutes the drums and keeps the bass
LAYER_TO_STEMS_own(layerName) ==
    CASE layerName = "backing" -> << <<"bs", "dr", "me", "fe", "ff">> >>
      [] layerName = "bass" -> << <<"bc", "dr", "me", "fe", "ff">> >>
      [] layerName = "drums" -> << <<"bc", "dr", "me", "fe", "ff">> >>
      [] layerName = "melody" -> << <<"bc", "bs", "dr", "fe", "ff">> >>
      [] OTHER -> << >>

\* LAYER_TO_STEMS[layerName]: << >> when the name is no key
LAYER_TO_STEMS(layerName) ==
    CASE layerName = "backing" -> << <<"bs", "dr", "me", "fe", "ff">> >>
      [] layerName = "bass" -> << <<"bc", "dr", "me", "fe", "ff">> >>
      [] layerName = "drums" -> << <<"bc", "bs", "me", "fe", "ff">> >>
      [] layerName = "melody" -> << <<"bc", "bs", "dr", "fe", "ff">> >>
      [] OTHER -> << >>

\* adaptive_layer_control: the argument of customizeMusic for one layer
LayerParams(in, muteStems) ==
    LET fileFormat == IF in.file_format = << >> THEN "m4a" ELSE in.file_format[1]
    IN  [EmptyBody EXCEPT
            !.share_link = <<in.share_link>>,
            !.mute_stems = <<muteStems>>,
            !.file_format = << <<fileFormat>> >>]

\* (variant: the reported format is always the default)
FormatOf_default(params) == "m4a"

\* params.file_format?.[0] || 'm4a'
FormatOf(params) ==
    IF params.file_format # << >> /\ Len(params.file_format[1]) > 0
       /\ Truthy(params.file_format[1][1])
    THEN params.file_format[1][1]
    ELSE "m4a"

----------------------------------------------------------------------------
(* The mappers and the extraction called on their own: MapperSpec draws a  *)
(* function and its arguments, and the one step applies the function.      *)

\* the tool-invocation variables at rest
ToolIdle ==
    /\ pc = "idle" /\ tool = "" /\ input = << >> /\ analysis = << >> /\ req = << >>
    /\ requestId = 0 /\ attempt = 0 /\ jobState = "none" /\ remote = "none"
    /\ lastAnswer = << >> /\ pollResult = << >> /\ posts = << >> /\ oracleCalls = 0
    /\ polls = 0 /\ sleeps = 0 /\ nonTerminal = 0 /\ lastIo = "none"
    /\ lastHttp = [method |-> "none", status |-> 0]
    /\ layerIdx = 0 /\ layers = << >> /\ thrown = << >> /\ output = << >>

\* invocations the process serves in its lifetime, in any interleaving
NumCalls == 2
Calls == 1..NumCalls

\* an invocation that has not started: no request sent, no handle used
IdleCall ==
    [ pc |-> "idle", tool |-> "", handle |-> 0, oracle |-> 0, posts |-> 0,
      requestId |-> 0, attempt |-> 0, polls |-> 0, pending |-> 0,
      last |-> "none", thrown |-> << >> ]

ServerIdle ==
    /\ calls = [i \in Calls |-> IdleCall]
    /\ jobs = [r \in Calls |-> "none"]
    /\ handles = 0

\* the keys of LAYER_TO_STEMS, and the names it is looked up with
LayerKeys == {"backing", "bass", "drums", "melody"}
LayerNames == LayerKeys \cup {"unknown_layer", "nonexistent", ""}

\* SoundrawResultResponse['result'] payloads
ResultPayloads ==
    [ bpm : {<<"1", "4", "2">>, << >>},
      share_link : {ShareLink},
      length : {Num(30)},
      timestamps : {<< >>},
      m4a_url : UrlValues("m4a"),
      mp3_url : UrlValues("mp3"),
      wav_url : UrlValues("wav") ]

\* SoundrawResultResponse values with status 'done', with and without a result
DoneResponses ==
    [ request_id : {1}, status : {"done"},
      result : {<< >>} \cup {<<r>> : r \in ResultPayloads} ]

MapperInit ==
    /\ ToolIdle
    /\ ServerIdle
    /\ soundrawKey = TRUE /\ deepseekKey = TRUE /\ client = FALSE
    /\ ret = << >>
    /\ \/ /\ fn = "getEnergyLevels"
          /\ arg \in [profile : Keywords, durationSeconds : Durations]
       \/ /\ fn = "getEnergyPreset"
          /\ arg \in [preset : Keywords, durationSeconds : Durations]
       \/ /\ fn = "extractResult"
          /\ arg \in [soundrawResult : DoneResponses, format : SOUNDRAW_FILE_FORMATS]
       \/ /\ fn = "LAYER_TO_STEMS"
          /\ arg \in [layerName : LayerNames]
       \/ /\ fn = "analyzeSceneForMusic"
          /\ arg \in [content : Contents, object : SceneObjects]
       \/ /\ fn = "analyzeTransition"
          /\ arg \in [content : Contents, object : TransitionObjects]

CallGetEnergyLevels ==
    /\ fn = "getEnergyLevels" /\ ret = << >>
    /\ ret' = << getEnergyLevels(arg.profile, arg.durationSeconds) >>
    /\ UNCHANGED <<fn, arg>>
    /\ UNCHANGED <<toolVars, serverVars>>

CallGetEnergyPreset ==
    /\ fn = "getEnergyPreset" /\ ret = << >>
    /\ ret' = << getEnergyPreset(arg.preset, arg.durationSeconds) >>
    /\ UNCHANGED <<fn, arg>>
    /\ UNCHANGED <<toolVars, serverVars>>

CallExtractResult ==
    /\ fn = "extractResult" /\ ret = << >>
    /\ ret' = << extractResult(arg.soundrawResult, arg.format) >>
    /\ UNCHANGED <<fn, arg>>
    /\ UNCHANGED <<toolVars, serverVars>>

\* const muteStems = LAYER_TO_STEMS[layerName]
CallLayerToStems ==
    /\ fn = "LAYER_TO_STEMS" /\ ret = << >>
    /\ ret' = << LAYER_TO_STEMS(arg.layerName) >>
    /\ UNCHANGED <<fn, arg>>
    /\ UNCHANGED <<toolVars, serverVars>>

\* the scene analyzer receives the completion
CallAnalyzeScene ==
    /\ fn = "analyzeSceneForMusic" /\ ret = << >>
    /\ ret' = << analyzeSceneForMusic(arg.content, arg.object) >>
    /\ UNCHANGED <<fn, arg>>
    /\ UNCHANGED <<toolVars, serverVars>>

\* the transition analyzer receives the completion
CallAnalyzeTransition ==
    /\ fn = "analyzeTransition" /\ ret = << >>
    /\ ret' = << analyzeTransition(arg.content, arg.object) >>
    /\ UNCHANGED <<fn, arg>>
    /\ UNCHANGED <<toolVars, serverVars>>

MapperNext ==
    \/ CallGetEnergyLevels
    \/ CallGetEnergyPreset
    \/ CallExtractResult
    \/ CallLayerToStems
    \/ CallAnalyzeScene
    \/ CallAnalyzeTransition

MapperSpec == MapperInit /\ [][MapperNext]_vars

----------------------------------------------------------------------------
(* Claims about result extraction and the mappers (under MapperSpec).      *)

Extracted == fn = "extractResult" /\ ret # << >>

UrlField(result, format) ==
    CASE format = "m4a" -> result.m4a_url
      [] format = "mp3" -> result.mp3_url
      [] OTHER -> result.wav_url

\* C7: for every requested format in {m4a, mp3, wav} and every combination of
\* populated URL fields, extraction returns the requested format's URL when it
\* is populated, otherwise the first populated URL in the order m4a, mp3, wav,
\* and the empty string, without raising, when none is populated.
C7_ExtractionFallback ==
    (Extracted /\ arg.soundrawResult.result # << >>) =>
        LET r == arg.soundrawResult.result[1]
            m == Truthy(r.m4a_url)
            p == Truthy(r.mp3_url)
            w == Truthy(r.wav_url)
            requested == UrlField(r, arg.format)
        IN  /\ ~ret[1].threw
            /\ Truthy(requested) => ret[1].value.audio_url = requested
            /\ ~Truthy(requested) =>
                 /\ m => ret[1].value.audio_url = r.m4a_url
                 /\ (~m /\ p) => ret[1].value.audio_url = r.mp3_url
                 /\ (~m /\ ~p /\ w) => ret[1].value.audio_url = r.wav_url
                 /\ (~m /\ ~p /\ ~w) => ret[1].value.audio_url = ""

\* format wav asked for, only m4a_url populated: the m4a URL came back
C7_Witness ==
    /\ Extracted /\ arg.format = "wav" /\ arg.soundrawResult.result # << >>
    /\ arg.soundrawResult.result[1].m4a_url = UrlOf("m4a")
    /\ arg.soundrawResult.result[1].mp3_url = Undefined
    /\ arg.soundrawResult.result[1].wav_url = Undefined
    /\ ~ret[1].threw /\ ret[1].value.audio_url = UrlOf("m4a")

ProfileMapped == fn = "getEnergyLevels" /\ ret # << >>

\* C8: for every duration d > 0 and each of the four named profiles the
\* segment list starts at 0, ends at d, every segment ends strictly after it
\* starts, and every segment starts where the previous one ends.
C8_ProfileSegmentsTile ==
    (ProfileMapped /\ arg.profile \in EnergyProfiles /\ Less(Num(0), arg.durationSeconds)) =>
        LET segs == ret[1]
        IN  /\ Len(segs) >= 1
            /\ segs[1].start = Num(0)
            /\ segs[Len(segs)].end = arg.durationSeconds
            /\ \A i \in 1..Len(segs) : Less(segs[i].start, segs[i].end)
            /\ \A i \in 2..Len(segs) : segs[i].start = segs[i - 1].end

\* 'building' over 30 seconds has been mapped to its four segments
C8_Witness ==
    /\ ProfileMapped /\ arg.profile = "building" /\ arg.durationSeconds = Num(30)
    /\ Len(ret[1]) = 4 /\ ret[1][4].end = Num(30)

\* k quarters of the duration d
Quarters(d, k) == Rat(k * d[1], 4 * d[2])

\* C9: 'building' is four equal quarters Low, Medium, High, Very High;
\* 'climax' is a first quarter High and the remaining three quarters Very
\* High; 'ambient' is one segment Low over the whole duration; 'steady' and
\* every unrecognized value is one segment Medium over the whole duration.
C9_ProfileShapes ==
    ProfileMapped =>
        LET d == arg.durationSeconds
            segs == ret[1]
        IN  CASE arg.profile = "building" ->
                   segs = << Seg(Quarters(d, 0), Quarters(d, 1), "Low"),
                             Seg(Quarters(d, 1), Quarters(d, 2), "Medium"),
                             Seg(Quarters(d, 2), Quarters(d, 3), "High"),
                             Seg(Quarters(d, 3), Quarters(d, 4), "Very High") >>
              [] arg.profile = "climax" ->
                   segs = << Seg(Num(0), Quarters(d, 1), "High"),
                             Seg(Quarters(d, 1), d, "Very High") >>
              [] arg.profile = "ambient" ->
                   segs = << Seg(Num(0), d, "Low") >>
              [] OTHER ->
                   segs = << Seg(Num(0), d, "Medium") >>

\* 'climax' over 30 seconds: [0, 7.5, High], [7.5, 30, Very High]
C9_Witness ==
    /\ ProfileMapped /\ arg.profile = "climax" /\ arg.durationSeconds = Num(30)
    /\ ret[1] = << Seg(Num(0), <<15, 2>>, "High"), Seg(<<15, 2>>, Num(30), "Very High") >>

PresetMapped == fn = "getEnergyPreset" /\ ret # << >>

Reverse(s) == [i \in 1..Len(s) |-> s[Len(s) + 1 - i]]
Energies(segs) == [i \in 1..Len(segs) |-> segs[i].energy]
Bounds(segs) == [i \in 1..Len(segs) |-> <<segs[i].start, segs[i].end>>]
\* position of an energy level on the scale Muted < Low < Medium < High < Very High
Level(energy) == CHOOSE i \in 1..Len(SOUNDRAW_ENERGY_LEVELS) : SOUNDRAW_ENERGY_LEVELS[i] = energy
\* the other one of the two presets the claim compares
Mirror(preset) == IF preset = "building" THEN "fade_out" ELSE "building"

\* C10 as stated: for every duration d, the 'building' and 'fade_out' presets
\* have the same segment boundaries and energy sequences that are exact
\* reverses of each other.
C10_Original ==
    (PresetMapped /\ arg.preset \in {"building", "fade_out"}) =>
        LET other == getEnergyPreset(Mirror(arg.preset), arg.durationSeconds)
        IN  /\ Bounds(ret[1]) = Bounds(other)
            /\ Energies(ret[1]) = Reverse(Energies(other))

\* C10 amended: for every duration d, the 'building' and 'fade_out' presets
\* have the same segment boundaries, and the energy sequence of 'fade_out'
\* is the reverse of the one of 'building' lowered by one level on the scale
\* Muted < Low < Medium < High < Very High.
C10_MirrorOneLevelDown ==
    (PresetMapped /\ arg.preset \in {"building", "fade_out"}) =>
        LET other == getEnergyPreset(Mirror(arg.preset), arg.durationSeconds)
            building == IF arg.preset = "building" THEN ret[1] ELSE other
            fade == IF arg.preset = "building" THEN other ELSE ret[1]
        IN  /\ Bounds(building) = Bounds(fade)
            /\ Len(building) = 4
            /\ \A i \in 1..4 : Level(fade[i].energy) = Level(building[5 - i].energy) - 1

\* 'fade_out' over the default 60 seconds has been mapped, ending Muted
C10_Witness ==
    /\ PresetMapped /\ arg.preset = "fade_out"
    /\ arg.durationSeconds = Num(DefaultPresetDuration)
    /\ Energies(ret[1]) = <<"High", "Medium", "Low", "Muted">>
    /\ ret[1][4].end = Num(60)

----------------------------------------------------------------------------
(* The Soundraw client (services/soundraw.ts) and the tool handlers, as    *)
(* one tool invocation at a time.  A step runs the code from one await to  *)
(* the next: the handler is suspended on the oracle ("analyzing"), on the  *)
(* submit POST ("submitting"), on a poll GET ("polling") or in sleep       *)
(* ("sleeping"), or it has returned or thrown.                             *)

POLL_INTERVAL_MS == 2000
MAX_POLL_ATTEMPTS == 150

\* an Error: its message's fixed text, and the request id or the HTTP status
\* the message goes on with (0: none)
Error(msg, id, status) == [message |-> msg, request_id |-> id, status |-> status]
ZodError == Error("ZodError", 0, 0)
SoundrawKeyError == Error("SOUNDRAW_API_KEY environment variable is required", 0, 0)
DeepseekKeyError == Error("DEEPSEEK_API_KEY environment variable is required", 0, 0)
OracleError == Error("DeepSeek request failed", 0, 0)
NoResponseError == Error("No response from DeepSeek", 0, 0)
ParseError == Error("Failed to parse parameters", 0, 0)
TransportError(status) == Error("Soundraw API error", 0, status)
FailedError(id) == Error("Soundraw generation failed for request", id, 0)
TimeoutError(id) == Error("Timeout waiting for Soundraw result", id, 0)

\* HTTP statuses the service answers with: response.ok or not
OkStatus == 200
NonOkStatuses == {429, 500}
Http(method, status) == [method |-> method, status |-> status]

\* the handler ends by throwing err
Fail(err) == pc' = "failed" /\ thrown' = <<err>>

\* 2xx bodies of GET /results/:id while the remote job has status st
NonTerminalStatuses == {"processing", "queued", Undefined}
Payload(len, m4a, wav) ==
    [ bpm |-> <<"1", "4", "2">>,
      share_link |-> "https://soundraw.io/edit_music?m=2",
      length |-> len,
      timestamps |-> << Seg(Num(0), len, "High") >>,
      m4a_url |-> m4a, mp3_url |-> Undefined, wav_url |-> wav ]
\* the result payloads the service sends here: every format, m4a only with a
\* length other than the one asked for, and no URL at all
ServicePayloads ==
    { Payload(Num(30), UrlOf("m4a"), UrlOf("wav")),
      Payload(Num(31), UrlOf("m4a"), Undefined),
      Payload(Num(30), Undefined, Undefined) }
ServiceAnswers(st, id) ==
    CASE st = "done" ->
           [request_id : {id}, status : {"done"},
            result : {<< >>} \cup {<<r>> : r \in ServicePayloads}]
      [] st = "failed" ->
           [request_id : {id}, status : {"failed"}, result : {<< >>}]
      [] OTHER ->
           [request_id : {id}, status : NonTerminalStatuses, result : {<< >>}]

\* a plausible slip: the loop bound off by one (attempt <= MAX_POLL_ATTEMPTS)
LoopContinues_offByOne(a) == a <= MAX_POLL_ATTEMPTS

\* a plausible slip: the loop has no bound (while (true))
LoopContinues_unbounded(a) == TRUE

\* the for loop's condition: attempt < MAX_POLL_ATTEMPTS
LoopContinues(a) == a < MAX_POLL_ATTEMPTS

\* (variant: only 'processing' keeps the loop going; any other status that
\* is not 'done' is taken for a failure)
PollDisposition_strict(status) ==
    IF status = "done" THEN "return"
    ELSE IF status = "processing" THEN "sleep"
    ELSE "throw"

\* a plausible slip: the 'failed' check is missing, so 'failed' is waited on
PollDisposition_noFailed(status) ==
    IF status = "done" THEN "return" ELSE "sleep"

\* a plausible slip: a 'done' answer is waited on and polled again
PollDisposition_confirm(status) ==
    IF status = "failed" THEN "throw" ELSE "sleep"

\* what pollForResult does with a 2xx answer of the given status
PollDisposition(status) ==
    IF status = "done" THEN "return"
    ELSE IF status = "failed" THEN "throw"
    ELSE "sleep"

\* the top of pollForResult's loop with attempt = a, nPolls GETs issued so
\* far for request id: the next GET, or the timeout after the loop (the
\* key that getHeaders() reads for the GET is the one the submit call read:
\* here the environment changes only between invocations; ServerLoopTop is
\* the same step under an environment that changes at any time)
LoopTop(a, id, nPolls) ==
    /\ attempt' = a
    /\ IF LoopContinues(a)
       THEN /\ pc' = "polling"
            /\ polls' = nPolls + 1
            /\ lastIo' = "poll"
            /\ jobState' = "SUBMITTED"
            /\ thrown' = thrown
       ELSE /\ Fail(TimeoutError(id))
            /\ polls' = nPolls
            /\ lastIo' = lastIo
            /\ jobState' = "TIMEOUT"

\* composeMusic / createSimilarMusic / customizeMusic up to their await
\* fetch: getHeaders() throws without the key, else the POST is sent
SubmitCall(endpoint, params) ==
    IF ~soundrawKey
    THEN /\ Fail(SoundrawKeyError)
         /\ UNCHANGED <<posts, req, jobVars>>
    ELSE /\ pc' = "submitting"
         /\ thrown' = thrown
         /\ posts' = Append(posts, endpoint)
         /\ req' = params
         /\ requestId' = 0 /\ attempt' = 0 /\ jobState' = "none" /\ remote' = "none"
         /\ lastAnswer' = << >> /\ pollResult' = << >>
         /\ polls' = 0 /\ sleeps' = 0 /\ nonTerminal' = 0 /\ lastIo' = "none"
         /\ lastHttp' = Http("none", 0)

RECURSIVE NextKnownLayer(_, _)
\* the first position >= i of a layer name LAYER_TO_STEMS knows (Len + 1: none)
NextKnownLayer(list, i) ==
    IF i > Len(list) THEN i
    ELSE IF LAYER_TO_STEMS(list[i]) = << >> THEN NextKnownLayer(list, i + 1)
    ELSE i

\* handleAdaptiveLayers' for loop from position i with the results collected
\* (after: the 'done' answer of the job just polled, << >> at the start):
\* unknown names are skipped, the next known layer is submitted, and after
\* the last one the output is returned
AdaptiveLoop(in, i, collected, after) ==
    LET j == NextKnownLayer(in.layers_to_keep, i)
    IN  /\ layerIdx' = j
        /\ layers' = collected
        /\ IF j > Len(in.layers_to_keep)
           THEN /\ pc' = "returned"
                /\ output' = << [ layers |-> collected,
                                  base_share_link |-> in.share_link ] >>
                /\ thrown' = thrown
                /\ UNCHANGED <<posts, req>>
                /\ IF after = << >>
                   THEN UNCHANGED jobVars
                   ELSE /\ jobState' = "DONE"
                        /\ lastAnswer' = after
                        /\ pollResult' = after
                        /\ lastHttp' = Http("GET", OkStatus)
                        /\ UNCHANGED <<requestId, attempt, remote, polls, sleeps,
                                       nonTerminal, lastIo>>
           ELSE /\ SubmitCall("customize",
                              LayerParams(in, LAYER_TO_STEMS(in.layers_to_keep[j])[1]))
                /\ output' = output

\* a plausible slip: the analyzer sends its request twice
AnalyzerCall_twice ==
    IF ~client /\ ~deepseekKey
    THEN /\ Fail(DeepseekKeyError)
         /\ UNCHANGED <<client, oracleCalls>>
    ELSE /\ client' = TRUE
         /\ oracleCalls' = oracleCalls + 2
         /\ pc' = "analyzing"
         /\ thrown' = thrown

\* analyzeSceneForMusic / analyzeTransition up to their await: getClient()
\* throws without the key unless the handle exists, else the request is sent
AnalyzerCall ==
    IF ~client /\ ~deepseekKey
    THEN /\ Fail(DeepseekKeyError)
         /\ UNCHANGED <<client, oracleCalls>>
    ELSE /\ client' = TRUE
         /\ oracleCalls' = oracleCalls + 1
         /\ pc' = "analyzing"
         /\ thrown' = thrown

\* the dispatch of a tool call to its handler, up to the handler's first await
Invoke(t, a) ==
    /\ pc = "idle"
    /\ tool' = t
    /\ input' = <<a>>
    /\ UNCHANGED <<mapperVars, serverVars, envVars, analysis>>
    /\ IF ~InputValid(t, a)
       THEN /\ Fail(ZodError)
            /\ UNCHANGED <<req, posts, oracleCalls, layerIdx, layers, output, jobVars, client>>
       ELSE CASE t \in {"generate_bgm", "scene_transition_music"} ->
                   /\ AnalyzerCall
                   /\ UNCHANGED <<req, posts, layerIdx, layers, output, jobVars>>
              [] t = "get_bgm_variations" ->
                   /\ IF a.variation_type = "similar"
                      THEN SubmitCall("similar", SimilarParams(a))
                      ELSE SubmitCall("customize", CustomizeParams(a))
                   /\ UNCHANGED <<oracleCalls, layerIdx, layers, output, client>>
              [] OTHER ->
                   /\ AdaptiveLoop(a, 1, << >>, << >>)
                   /\ UNCHANGED <<oracleCalls, client>>

\* the text-completion request rejects (transport failure)
OracleFails ==
    /\ pc = "analyzing"
    /\ Fail(OracleError)
    /\ UNCHANGED <<mapperVars, serverVars, tool, input, analysis, req, posts, oracleCalls, layerIdx,
                   layers, output, jobVars, envVars, client>>

\* the completion carries no content
OracleEmpty ==
    /\ pc = "analyzing"
    /\ Fail(NoResponseError)
    /\ UNCHANGED <<mapperVars, serverVars, tool, input, analysis, req, posts, oracleCalls, layerIdx,
                   layers, output, jobVars, envVars, client>>

\* a plausible slip: an unparsable completion is asked for again
OracleUnparsable_retry ==
    /\ pc = "analyzing"
    /\ oracleCalls' = oracleCalls + 1
    /\ UNCHANGED <<mapperVars, serverVars, pc, thrown, tool, input, analysis, req, posts, layerIdx,
                   layers, output, jobVars, envVars, client>>

\* the completion's content is not valid JSON after fence-stripping
OracleUnparsable ==
    /\ pc = "analyzing"
    /\ Fail(ParseError)
    /\ UNCHANGED <<mapperVars, serverVars, tool, input, analysis, req, posts, oracleCalls, layerIdx,
                   layers, output, jobVars, envVars, client>>

\* the completion parses: the analyzer validates it and the handler builds
\* the compose request and submits it
OracleAnswers(params) ==
    /\ pc = "analyzing"
    /\ IF tool = "generate_bgm"
       THEN /\ params \in SceneReplies
            /\ analysis' = << ValidateSceneParams(params) >>
            /\ SubmitCall("compose", GenerateBgmParams(input[1], ValidateSceneParams(params)))
       ELSE /\ params \in TransitionReplies
            /\ analysis' = << ValidateTransitionParams(params) >>
            /\ SubmitCall("compose",
                          SceneTransitionParams(input[1], ValidateTransitionParams(params)))
    /\ UNCHANGED <<mapperVars, serverVars, tool, input, oracleCalls, layerIdx, layers, output,
                   envVars, client>>

\* a plausible slip: a rejected submit is sent again
SubmitRejected_retry ==
    /\ pc = "submitting"
    /\ \E status \in NonOkStatuses : lastHttp' = Http("POST", status)
    /\ posts' = Append(posts, posts[Len(posts)])
    /\ UNCHANGED <<mapperVars, serverVars, pc, thrown, tool, input, analysis, req, oracleCalls,
                   layerIdx, layers, output, requestId, attempt, jobState, remote,
                   lastAnswer, pollResult, polls, sleeps, nonTerminal, lastIo,
                   envVars, client>>

\* a plausible slip: a rejected submit goes on to poll the result endpoint
SubmitRejected_polls ==
    /\ pc = "submitting"
    /\ \E status \in NonOkStatuses : lastHttp' = Http("POST", status)
    /\ requestId' = Len(posts)
    /\ LoopTop(0, Len(posts), 0)
    /\ UNCHANGED <<mapperVars, serverVars, tool, input, analysis, req, posts, oracleCalls, layerIdx,
                   layers, output, remote, lastAnswer, pollResult, sleeps, nonTerminal,
                   envVars, client>>

\* the submit POST is answered non-2xx: the client throws
SubmitRejected ==
    /\ pc = "submitting"
    /\ \E status \in NonOkStatuses :
          /\ lastHttp' = Http("POST", status)
          /\ Fail(TransportError(status))
    /\ UNCHANGED <<mapperVars, serverVars, tool, input, analysis, req, posts, oracleCalls, layerIdx,
                   layers, output, requestId, attempt, jobState, remote, lastAnswer,
                   pollResult, polls, sleeps, nonTerminal, lastIo, envVars, client>>

\* a plausible slip: pollForResult sleeps before its first poll
SubmitAccepted_sleepFirst ==
    /\ pc = "submitting"
    /\ requestId' = Len(posts)
    /\ remote' = "processing"
    /\ jobState' = "SUBMITTED"
    /\ pc' = "sleeping" /\ sleeps' = 1 /\ lastIo' = "sleep"
    /\ attempt' = -1
    /\ lastHttp' = Http("POST", OkStatus)
    /\ UNCHANGED <<mapperVars, serverVars, tool, input, analysis, req, posts, oracleCalls, layerIdx,
                   layers, output, lastAnswer, pollResult, polls, nonTerminal, thrown,
                   envVars, client>>

\* a plausible slip: adaptive_layer_control submits its next layer as soon as
\* a submit is accepted, before polling the job
SubmitAccepted_pipelined ==
    /\ pc = "submitting"
    /\ IF tool = "adaptive_layer_control" /\ layerIdx < Len(input[1].layers_to_keep)
       THEN /\ layerIdx' = layerIdx + 1
            /\ SubmitCall("customize",
                   LayerParams(input[1],
                               LAYER_TO_STEMS(input[1].layers_to_keep[layerIdx + 1])[1]))
            /\ UNCHANGED <<mapperVars, serverVars, tool, input, analysis, oracleCalls, layers, output,
                           envVars, client>>
       ELSE /\ requestId' = Len(posts)
            /\ remote' = "processing"
            /\ lastHttp' = Http("POST", OkStatus)
            /\ LoopTop(0, Len(posts), 0)
            /\ UNCHANGED <<mapperVars, serverVars, tool, input, analysis, req, posts, oracleCalls,
                           layerIdx, layers, output, lastAnswer, pollResult, sleeps,
                           nonTerminal, envVars, client>>

\* the submit POST is answered 2xx with a request id: the job exists, and
\* pollForResult sends its first GET
SubmitAccepted ==
    /\ pc = "submitting"
    /\ requestId' = Len(posts)
    /\ remote' = "processing"
    /\ lastHttp' = Http("POST", OkStatus)
    /\ LoopTop(0, Len(posts), 0)
    /\ UNCHANGED <<mapperVars, serverVars, tool, input, analysis, req, posts, oracleCalls, layerIdx,
                   layers, output, lastAnswer, pollResult, sleeps, nonTerminal,
                   envVars, client>>

\* a plausible slip: a rejected poll is waited on and polled again
PollRejected_retry ==
    /\ pc = "polling"
    /\ \E status \in NonOkStatuses : lastHttp' = Http("GET", status)
    /\ pc' = "sleeping"
    /\ sleeps' = sleeps + 1
    /\ lastIo' = "sleep"
    /\ UNCHANGED <<mapperVars, serverVars, tool, input, analysis, req, posts, oracleCalls, layerIdx,
                   layers, output, thrown, requestId, attempt, jobState, remote,
                   lastAnswer, pollResult, polls, nonTerminal, envVars, client>>

\* a plausible slip: adaptive_layer_control catches a rejected poll and
\* returns the layers collected so far
PollRejected_partial ==
    /\ pc = "polling"
    /\ \E status \in NonOkStatuses :
          /\ lastHttp' = Http("GET", status)
          /\ IF tool = "adaptive_layer_control"
             THEN /\ pc' = "returned"
                  /\ thrown' = thrown
                  /\ output' = << [ layers |-> layers,
                                    base_share_link |-> input[1].share_link ] >>
             ELSE /\ Fail(TransportError(status))
                  /\ output' = output
    /\ UNCHANGED <<mapperVars, serverVars, tool, input, analysis, req, posts, oracleCalls, layerIdx,
                   layers, requestId, attempt, jobState, remote, lastAnswer,
                   pollResult, polls, sleeps, nonTerminal, lastIo, envVars, client>>

\* a poll GET is answered non-2xx: pollForResult throws
PollRejected ==
    /\ pc = "polling"
    /\ \E status \in NonOkStatuses :
          /\ lastHttp' = Http("GET", status)
          /\ Fail(TransportError(status))
    /\ UNCHANGED <<mapperVars, serverVars, tool, input, analysis, req, posts, oracleCalls, layerIdx,
                   layers, output, requestId, attempt, jobState, remote, lastAnswer,
                   pollResult, polls, sleeps, nonTerminal, lastIo, envVars, client>>

\* (variant: the output carries the length that was asked for, when the
\* request names one)
ReportedDuration_requested(extracted, params) ==
    IF params.length # << >> THEN params.length[1] ELSE extracted.duration_seconds

\* duration_seconds: extracted.duration_seconds in the handlers' outputs
ReportedDuration(extracted, params) == extracted.duration_seconds

\* the handler's code after its submit call returned resp (status 'done')
HandlerResume(resp) ==
    LET format == FormatOf(req)
        extracted == extractResult(resp, format)
        in == input[1]
    IN  IF extracted.threw
        THEN /\ Fail(Error(extracted.message, 0, 0))
             /\ UNCHANGED <<posts, req, layerIdx, layers, output,
                            requestId, attempt, remote, polls, sleeps, nonTerminal, lastIo>>
        ELSE LET e == extracted.value
             IN  CASE tool = "generate_bgm" ->
                        /\ pc' = "returned"
                        /\ thrown' = thrown
                        /\ output' = << [ share_link |-> e.share_link,
                                          audio_url |-> e.audio_url,
                                          request_id |-> e.request_id,
                                          duration_seconds |-> ReportedDuration(e, req),
                                          bpm |-> e.bpm,
                                          timestamps |-> e.timestamps,
                                          file_format |-> format,
                                          deepseek_reasoning |-> analysis[1].reasoning,
                                          soundraw_params |-> req ] >>
                        /\ UNCHANGED <<posts, req, layerIdx, layers,
                                       requestId, attempt, remote, polls, sleeps,
                                       nonTerminal, lastIo>>
                   [] tool = "scene_transition_music" ->
                        /\ pc' = "returned"
                        /\ thrown' = thrown
                        /\ output' = << [ share_link |-> e.share_link,
                                          audio_url |-> e.audio_url,
                                          request_id |-> e.request_id,
                                          from_scene |-> in.from_scene,
                                          to_scene |-> in.to_scene,
                                          transition_type |-> in.transition_type,
                                          duration_seconds |-> ReportedDuration(e, req),
                                          bpm |-> e.bpm,
                                          deepseek_reasoning |-> analysis[1].reasoning ] >>
                        /\ UNCHANGED <<posts, req, layerIdx, layers,
                                       requestId, attempt, remote, polls, sleeps,
                                       nonTerminal, lastIo>>
                   [] tool = "get_bgm_variations" ->
                        /\ pc' = "returned"
                        /\ thrown' = thrown
                        /\ output' = << [ share_link |-> e.share_link,
                                          audio_url |-> e.audio_url,
                                          request_id |-> e.request_id,
                                          duration_seconds |-> ReportedDuration(e, req),
                                          bpm |-> e.bpm,
                                          variation_type |-> in.variation_type,
                                          base_share_link |-> in.share_link ] >>
                        /\ UNCHANGED <<posts, req, layerIdx, layers,
                                       requestId, attempt, remote, polls, sleeps,
                                       nonTerminal, lastIo>>
                   [] OTHER -> FALSE

\* (variant: the last turn of the loop does not sleep; the timeout follows
\* the last answer at once)
StillProcessing_skipLastSleep(resp) ==
    /\ lastAnswer' = <<resp>>
    /\ lastHttp' = Http("GET", OkStatus)
    /\ nonTerminal' = nonTerminal + 1
    /\ IF LoopContinues(attempt + 1)
       THEN /\ pc' = "sleeping"
            /\ sleeps' = sleeps + 1
            /\ lastIo' = "sleep"
            /\ UNCHANGED <<thrown, attempt, jobState, polls>>
       ELSE /\ LoopTop(attempt + 1, requestId, polls)
            /\ sleeps' = sleeps
    /\ UNCHANGED <<posts, req, layerIdx, layers, output, requestId, remote, pollResult>>

\* a 2xx answer that is neither 'done' nor 'failed': the loop body falls
\* through to await sleep(POLL_INTERVAL_MS)
StillProcessing(resp) ==
    /\ pc' = "sleeping"
    /\ lastAnswer' = <<resp>>
    /\ lastHttp' = Http("GET", OkStatus)
    /\ nonTerminal' = nonTerminal + 1
    /\ sleeps' = sleeps + 1
    /\ lastIo' = "sleep"
    /\ UNCHANGED <<posts, req, layerIdx, layers, output, thrown, requestId,
                   attempt, jobState, remote, pollResult, polls>>

\* a poll GET is answered 2xx with body resp: pollForResult returns it
\* ('done', and the handler goes on), throws ('failed'), or sleeps
PollAnswer(resp) ==
    /\ pc = "polling"
    /\ resp \in ServiceAnswers(remote, requestId)
    /\ UNCHANGED <<mapperVars, serverVars, tool, input, analysis, oracleCalls, envVars, client>>
    /\ CASE PollDisposition(resp.status) = "return" ->
              IF tool = "adaptive_layer_control"
              THEN LET extracted == extractResult(resp, FormatOf(req))
                       name == input[1].layers_to_keep[layerIdx]
                   IN  IF extracted.threw
                       THEN /\ Fail(Error(extracted.message, 0, 0))
                            /\ jobState' = "DONE"
                            /\ lastAnswer' = <<resp>>
                            /\ pollResult' = <<resp>>
                            /\ lastHttp' = Http("GET", OkStatus)
                            /\ UNCHANGED <<posts, req, layerIdx, layers, output, requestId,
                                           attempt, remote, polls, sleeps, nonTerminal, lastIo>>
                       ELSE AdaptiveLoop(input[1], layerIdx + 1,
                                Append(layers,
                                       [ name |-> name,
                                         mute_stems |-> LAYER_TO_STEMS(name)[1],
                                         share_link |-> extracted.value.share_link,
                                         audio_url |-> extracted.value.audio_url,
                                         request_id |-> extracted.value.request_id ]),
                                <<resp>>)
              ELSE /\ jobState' = "DONE"
                   /\ lastAnswer' = <<resp>>
                   /\ pollResult' = <<resp>>
                   /\ lastHttp' = Http("GET", OkStatus)
                   /\ HandlerResume(resp)
         [] PollDisposition(resp.status) = "throw" ->
              /\ Fail(FailedError(requestId))
              /\ jobState' = "FAILED"
              /\ lastAnswer' = <<resp>>
              /\ lastHttp' = Http("GET", OkStatus)
              /\ UNCHANGED <<posts, req, layerIdx, layers, output, requestId, attempt,
                             remote, pollResult, polls, sleeps, nonTerminal, lastIo>>
         [] OTHER -> StillProcessing(resp)

PollAnswered == \E resp \in ServiceAnswers(remote, requestId) : PollAnswer(resp)

\* a plausible slip: the timeout cancels the remote job
SleepDone_cancels ==
    /\ pc = "sleeping"
    /\ LoopTop(attempt + 1, requestId, polls)
    /\ remote' = IF LoopContinues(attempt + 1) THEN remote ELSE "failed"
    /\ UNCHANGED <<mapperVars, serverVars, tool, input, analysis, req, posts, oracleCalls, layerIdx,
                   layers, output, requestId, lastAnswer, pollResult, sleeps,
                   nonTerminal, lastHttp, envVars, client>>

\* the sleep of POLL_INTERVAL_MS ends: attempt++ and the loop's next round
SleepDone ==
    /\ pc = "sleeping"
    /\ LoopTop(attempt + 1, requestId, polls)
    /\ UNCHANGED <<mapperVars, serverVars, tool, input, analysis, req, posts, oracleCalls, layerIdx,
                   layers, output, requestId, remote, lastAnswer, pollResult, sleeps,
                   nonTerminal, lastHttp, envVars, client>>

\* the service finishes the job, whatever the client is doing
RemoteFinishes ==
    /\ remote = "processing"
    /\ remote' \in {"done", "failed"}
    /\ UNCHANGED <<mapperVars, serverVars, pc, tool, input, analysis, req, posts, oracleCalls,
                   layerIdx, layers, thrown, output, requestId, attempt, jobState,
                   lastAnswer, pollResult, polls, sleeps, nonTerminal, lastIo, lastHttp,
                   envVars, client>>

\* the dispatcher has answered the caller; the next tool call can come.  The
\* oracle client handle and the environment outlive the invocation.
NextCall ==
    /\ pc \in {"returned", "failed"}
    /\ pc' = "idle" /\ tool' = "" /\ input' = << >> /\ analysis' = << >> /\ req' = << >>
    /\ requestId' = 0 /\ attempt' = 0 /\ jobState' = "none" /\ remote' = "none"
    /\ lastAnswer' = << >> /\ pollResult' = << >> /\ posts' = << >> /\ oracleCalls' = 0
    /\ polls' = 0 /\ sleeps' = 0 /\ nonTerminal' = 0 /\ lastIo' = "none"
    /\ lastHttp' = [method |-> "none", status |-> 0]
    /\ layerIdx' = 0 /\ layers' = << >> /\ thrown' = << >> /\ output' = << >>
    /\ UNCHANGED <<mapperVars, serverVars, envVars, client>>

\* a missing credential is put into the environment between calls
SetCredential ==
    /\ pc = "idle"
    /\ \/ ~soundrawKey /\ soundrawKey' = TRUE /\ deepseekKey' = deepseekKey
       \/ ~deepseekKey /\ deepseekKey' = TRUE /\ soundrawKey' = soundrawKey
    /\ UNCHANGED <<mapperVars, serverVars, pc, tool, input, analysis, req, posts, oracleCalls,
                   layerIdx, layers, thrown, output, jobVars, client>>

\* one tool invocation in a process that has both credentials
Init ==
    /\ fn = "none" /\ arg = << >> /\ ret = << >>
    /\ ToolIdle
    /\ ServerIdle
    /\ soundrawKey = TRUE
    /\ deepseekKey = TRUE
    /\ client = FALSE

Next ==
    \/ \E t \in ToolNames : \E a \in ArgsOf(t) : Invoke(t, a)
    \/ OracleFails
    \/ OracleEmpty
    \/ OracleUnparsable
    \/ \E params \in SceneReplies \cup TransitionReplies : OracleAnswers(params)
    \/ SubmitRejected
    \/ SubmitAccepted
    \/ PollRejected
    \/ PollAnswered
    \/ SleepDone
    \/ RemoteFinishes

Spec == Init /\ [][Next]_vars

\* one tool invocation in which every HTTP request to the result endpoint
\* is answered and every sleep's timer fires
FairSpec ==
    /\ Spec
    /\ WF_vars(PollAnswered \/ PollRejected)
    /\ WF_vars(SleepDone)

\* the process over its lifetime: one invocation after the other, whatever
\* credentials the environment holds
ProcessInit ==
    /\ fn = "none" /\ arg = << >> /\ ret = << >>
    /\ ToolIdle
    /\ ServerIdle
    /\ soundrawKey \in BOOLEAN
    /\ deepseekKey \in BOOLEAN
    /\ client = FALSE

ProcessNext == Next \/ NextCall \/ SetCredential

ProcessSpec == ProcessInit /\ [][ProcessNext]_vars

----------------------------------------------------------------------------
(* Several invocations in flight in the one process.  A handler runs      *)
(* without interruption from one await to the next, so each action below  *)
(* is one such stretch of one invocation: the code that follows the       *)
(* answer it was waiting for, up to the next request it sends.  What the  *)
(* invocations share is the module-level client handle and process.env;   *)
(* attempt, request id and result are locals of each pollForResult call.  *)

\* non-terminal answers the service gives for a job that it finishes
MaxPending == 1

\* the invocations whose job the service may never finish (the invocations
\* run the same code, so which of them it is does not matter)
StuckCalls == {1}

AnalyzerTools == {"generate_bgm", "scene_transition_music"}

\* the answers that are not response.ok all take the one branch: one status
\* stands for them here
ServerError == TransportError(CHOOSE status \in NonOkStatuses : TRUE)

\* one tool that asks the analyzer first and one that submits at once
ServerTools == {"generate_bgm", "get_bgm_variations"}

Raise(c, err) == [c EXCEPT !.pc = "failed", !.thrown = <<err>>]

\* getClient() once its key check has passed: the handle is constructed
\* only while the module-level variable is still null
getClient_fresh ==
    /\ client' = TRUE
    /\ handles' = handles + 1

getClient ==
    IF client
    THEN UNCHANGED <<client, handles>>
    ELSE /\ client' = TRUE
         /\ handles' = handles + 1

\* a submit call: getHeaders() reads the key, then the POST goes out
ServerSubmit(c) ==
    IF ~soundrawKey
    THEN Raise(c, SoundrawKeyError)
    ELSE [c EXCEPT !.pc = "submitting", !.posts = @ + 1]

\* (variant: the headers of the submit call are kept for the polls)
ServerLoopTop_keptHeaders(c, a) ==
    IF ~LoopContinues(a)
    THEN Raise([c EXCEPT !.attempt = a], TimeoutError(c.requestId))
    ELSE [c EXCEPT !.pc = "polling", !.attempt = a, !.polls = @ + 1]

\* the top of pollForResult's loop with the counter at a: the loop
\* condition, then getHeaders() for the GET, then the GET
ServerLoopTop(c, a) ==
    IF ~LoopContinues(a)
    THEN Raise([c EXCEPT !.attempt = a], TimeoutError(c.requestId))
    ELSE IF ~soundrawKey
         THEN Raise([c EXCEPT !.attempt = a], SoundrawKeyError)
         ELSE [c EXCEPT !.pc = "polling", !.attempt = a, !.polls = @ + 1]

\* the handler is entered: up to its first request
CallStarts(i) ==
    /\ calls[i].pc = "idle"
    /\ \E t \in ServerTools :
         LET c == [calls[i] EXCEPT !.tool = t] IN
         IF t \in AnalyzerTools
         THEN IF ~client /\ ~deepseekKey
              THEN /\ calls' = [calls EXCEPT ![i] = Raise(c, DeepseekKeyError)]
                   /\ UNCHANGED <<client, handles>>
              ELSE /\ getClient
                   /\ calls' = [calls EXCEPT ![i] =
                                   [c EXCEPT !.pc = "analyzing", !.handle = handles',
                                             !.oracle = @ + 1]]
         ELSE /\ calls' = [calls EXCEPT ![i] = ServerSubmit(c)]
              /\ UNCHANGED <<client, handles>>
    /\ UNCHANGED <<mapperVars, pc, tool, input, analysis, req, posts, oracleCalls,
                   layerIdx, layers, thrown, output, jobVars, envVars, jobs>>

\* the oracle request ends: in an error, or in parameters that are submitted
CallOracleReturns(i) ==
    /\ calls[i].pc = "analyzing"
    /\ \/ calls' = [calls EXCEPT ![i] = Raise(@, OracleError)]
       \/ calls' = [calls EXCEPT ![i] = ServerSubmit(@)]
    /\ UNCHANGED <<mapperVars, toolVars, jobs, handles>>

\* the submit POST is answered: the service has created the job and given
\* it a request id of its own (ids are opaque to the client, so the id given
\* to the job of invocation i is written i)
CallSubmitAnswered(i) ==
    /\ calls[i].pc = "submitting"
    /\ \/ /\ calls' = [calls EXCEPT ![i] = Raise(@, ServerError)]
          /\ UNCHANGED jobs
       \/ \E st \in {"running"} \cup (IF i \in StuckCalls THEN {"stuck"} ELSE {}) :
            /\ jobs[i] = "none"
            /\ jobs' = [jobs EXCEPT ![i] = st]
            /\ calls' = [calls EXCEPT ![i] = ServerLoopTop([@ EXCEPT !.requestId = i], 0)]
    /\ UNCHANGED <<mapperVars, toolVars, handles>>

\* (variant: the loop counter is a module-level variable that every poll
\* loop in flight counts on)
CallPollAnswered_sharedCounter(i) ==
    LET c == calls[i]
        st == jobs[c.requestId]
    IN  /\ c.pc = "polling"
        /\ \/ calls' = [calls EXCEPT ![i] = Raise(c, ServerError)]
           \/ /\ st = "running"
              /\ calls' = [calls EXCEPT ![i] = [c EXCEPT !.pc = "returned", !.last = "done"]]
           \/ /\ st = "running"
              /\ calls' = [calls EXCEPT ![i] =
                              Raise([c EXCEPT !.last = "failed"], FailedError(c.requestId))]
           \/ /\ st = "stuck" \/ c.pending < MaxPending
              /\ calls' = [j \in Calls |->
                              IF j = i
                              THEN ServerLoopTop([c EXCEPT !.pending = @ + 1,
                                                          !.last = "processing"],
                                                 c.attempt + 1)
                              ELSE IF calls[j].pc = "polling"
                                   THEN [calls[j] EXCEPT !.attempt = @ + 1]
                                   ELSE calls[j]]
        /\ UNCHANGED <<mapperVars, toolVars, jobs, handles>>

\* a poll of the invocation's own job is answered: with an error status,
\* with the job done or failed, or with the job still in progress; a
\* non-terminal answer is followed by the sleep, the increment and the next
\* turn of the loop
CallPollAnswered(i) ==
    LET c == calls[i]
        st == jobs[c.requestId]
    IN  /\ c.pc = "polling"
        /\ \/ calls' = [calls EXCEPT ![i] = Raise(c, ServerError)]
           \/ /\ st = "running"
              /\ calls' = [calls EXCEPT ![i] = [c EXCEPT !.pc = "returned", !.last = "done"]]
           \/ /\ st = "running"
              /\ calls' = [calls EXCEPT ![i] =
                              Raise([c EXCEPT !.last = "failed"], FailedError(c.requestId))]
           \/ /\ st = "stuck" \/ c.pending < MaxPending
              /\ calls' = [calls EXCEPT ![i] =
                              ServerLoopTop([c EXCEPT !.pending = @ + 1,
                                                      !.last = "processing"],
                                            c.attempt + 1)]
        /\ UNCHANGED <<mapperVars, toolVars, jobs, handles>>

\* the environment of the process changes one of its keys (getClient reads
\* its key only while no handle exists, so later changes of it show nowhere)
EnvChanges ==
    /\ \/ soundrawKey' = ~soundrawKey /\ UNCHANGED deepseekKey
       \/ ~client /\ deepseekKey' = ~deepseekKey /\ UNCHANGED soundrawKey
    /\ UNCHANGED <<mapperVars, pc, tool, input, analysis, req, posts, oracleCalls,
                   layerIdx, layers, thrown, output, jobVars, client, serverVars>>

ServerInit == ProcessInit

ServerNext ==
    \/ \E i \in Calls : CallStarts(i)
    \/ \E i \in Calls : CallOracleReturns(i)
    \/ \E i \in Calls : CallSubmitAnswered(i)
    \/ \E i \in Calls : CallPollAnswered(i)
    \/ EnvChanges

ServerSpec == ServerInit /\ [][ServerNext]_vars

----------------------------------------------------------------------------
(* Claims about the poll loop and the submit calls (under Spec).           *)

\* milliseconds pollForResult has slept for the current job
SleptMs == sleeps * POLL_INTERVAL_MS

\* C1: when the result endpoint answers 2xx non-terminal for the first N
\* polls and then 'done' (N from 0 to MAX_POLL_ATTEMPTS - 1), pollForResult
\* returns that 'done' answer after exactly N + 1 polls and N sleeps of the
\* fixed interval, one sleep between each two consecutive polls.
C1_PollsAndSleeps ==
    /\ jobState = "DONE" =>
          /\ pollResult # << >> /\ pollResult = lastAnswer
          /\ pollResult[1].status = "done" /\ pollResult[1].request_id = requestId
          /\ nonTerminal <= MAX_POLL_ATTEMPTS - 1
          /\ polls = nonTerminal + 1
          /\ sleeps = nonTerminal
          /\ SleptMs = nonTerminal * POLL_INTERVAL_MS
    \* polls and sleeps alternate, beginning with a poll
    /\ pc = "polling" => lastIo = "poll"
    /\ pc = "sleeping" => lastIo = "sleep"
    /\ lastIo = "poll" => polls = sleeps + 1
    /\ lastIo = "sleep" => polls = sleeps
    /\ lastIo = "none" => polls = 0 /\ sleeps = 0

\* 'done' came on the last attempt: 149 non-terminal answers, 150 polls
C1_Witness ==
    /\ jobState = "DONE" /\ pc = "returned"
    /\ nonTerminal = MAX_POLL_ATTEMPTS - 1 /\ polls = MAX_POLL_ATTEMPTS
    /\ sleeps = MAX_POLL_ATTEMPTS - 1

TimedOut == thrown # << >> /\ thrown[1].message = TimeoutError(0).message

\* C2: when every poll is answered 2xx with a non-terminal status, the
\* timeout error is raised after exactly MAX_POLL_ATTEMPTS polls: never after
\* fewer, and no further poll is issued.
C2_TimeoutAfterMax ==
    /\ polls <= MAX_POLL_ATTEMPTS
    /\ (jobState = "TIMEOUT" \/ TimedOut) =>
          /\ jobState = "TIMEOUT" /\ pc = "failed"
          /\ thrown = <<TimeoutError(requestId)>>
          /\ polls = MAX_POLL_ATTEMPTS
          /\ nonTerminal = MAX_POLL_ATTEMPTS
    \* after the 150th non-terminal answer only the last sleep or the timeout is left
    /\ nonTerminal = MAX_POLL_ATTEMPTS => (pc = "sleeping" \/ jobState = "TIMEOUT")

C2_Witness ==
    /\ jobState = "TIMEOUT" /\ polls = MAX_POLL_ATTEMPTS /\ pc = "failed"
    /\ thrown = <<TimeoutError(requestId)>>

\* C3: the client's view of a job moves only SUBMITTED -> SUBMITTED on a
\* non-terminal poll answer, SUBMITTED -> DONE on 'done', SUBMITTED -> FAILED
\* on 'failed' and SUBMITTED -> TIMEOUT when the attempts are exhausted; the
\* 'failed' outcome is an error that names the request id and is not the
\* timeout error; the timeout is reached only when no poll was answered
\* 'done' or 'failed'.
C3_Step ==
    /\ jobState' # jobState =>
          \/ jobState' = "none" /\ posts' # posts
          \/ jobState = "none" /\ jobState' = "SUBMITTED" /\ requestId' > 0
          \/ /\ jobState = "SUBMITTED" /\ jobState' = "DONE"
             /\ lastAnswer' # << >> /\ lastAnswer'[1].status = "done"
          \/ /\ jobState = "SUBMITTED" /\ jobState' = "FAILED"
             /\ lastAnswer' # << >> /\ lastAnswer'[1].status = "failed"
             /\ thrown' = <<FailedError(requestId)>> /\ requestId > 0
             /\ thrown'[1].message # TimeoutError(requestId).message
          \/ /\ jobState = "SUBMITTED" /\ jobState' = "TIMEOUT"
             /\ attempt' = MAX_POLL_ATTEMPTS
             /\ nonTerminal' = polls'
             /\ lastAnswer'[1].status \notin {"done", "failed"}
             /\ thrown' = <<TimeoutError(requestId)>> /\ requestId > 0
    /\ nonTerminal' = nonTerminal + 1 =>
          /\ jobState = "SUBMITTED" /\ jobState' = "SUBMITTED"
          /\ lastAnswer'[1].status \notin {"done", "failed"}
    /\ (pc = "polling" /\ lastHttp' = Http("GET", OkStatus) /\ posts' = posts) =>
          /\ lastAnswer'[1].status = "done" => jobState' = "DONE"
          /\ lastAnswer'[1].status = "failed" => jobState' = "FAILED"

C3_JobTransitions == [][C3_Step]_vars

\* the job failed after some waiting: the error names the request id
C3_Witness ==
    /\ jobState = "FAILED" /\ pc = "failed" /\ nonTerminal > 0
    /\ thrown = <<FailedError(requestId)>> /\ requestId = 1

PollWasRejected == lastHttp.method = "GET" /\ lastHttp.status \in NonOkStatuses

\* C4: a poll answered non-2xx ends pollForResult at once with a transport
\* error, at whatever attempt: no sleep and no further poll follows it, and
\* it is not retried.
C4_Step ==
    /\ PollWasRejected' =>
          /\ pc' = "failed" /\ thrown' = <<TransportError(lastHttp'.status)>>
    /\ (~PollWasRejected /\ PollWasRejected') =>
          /\ polls' = polls /\ sleeps' = sleeps /\ attempt' = attempt /\ posts' = posts
    /\ PollWasRejected =>
          /\ PollWasRejected'
          /\ polls' = polls /\ sleeps' = sleeps /\ posts' = posts /\ pc' = pc

C4_PollRejectionIsFatal == [][C4_Step]_vars

\* the very last attempt's poll was rejected
C4_Witness ==
    /\ PollWasRejected /\ pc = "failed" /\ attempt = MAX_POLL_ATTEMPTS - 1
    /\ polls = MAX_POLL_ATTEMPTS /\ sleeps = MAX_POLL_ATTEMPTS - 1
    /\ thrown = <<TransportError(500)>>

SubmitWasRejected == lastHttp.method = "POST" /\ lastHttp.status \in NonOkStatuses

\* C5: for each of the three submit calls a non-2xx answer to the POST
\* raises a transport error at once: the POST is not sent again and no poll
\* of the result endpoint is issued for that call.
C5_Step ==
    /\ SubmitWasRejected' =>
          /\ pc' = "failed" /\ thrown' = <<TransportError(lastHttp'.status)>>
          /\ polls' = 0 /\ sleeps' = 0 /\ requestId' = 0 /\ jobState' = "none"
    /\ (~SubmitWasRejected /\ SubmitWasRejected') => posts' = posts
    /\ SubmitWasRejected => (SubmitWasRejected' /\ posts' = posts /\ pc' = pc)

C5_SubmitRejectionIsFatal == [][C5_Step]_vars

C5_Witness ==
    /\ SubmitWasRejected /\ pc = "failed" /\ polls = 0
    /\ tool = "get_bgm_variations" /\ posts = <<"similar">>
    /\ thrown = <<TransportError(429)>>

SingleJobTools == {"generate_bgm", "get_bgm_variations", "scene_transition_music"}

\* the error the client raised for the way the job or the call ended
ClientRaised ==
    CASE jobState = "FAILED" -> <<FailedError(requestId)>>
      [] jobState = "TIMEOUT" -> <<TimeoutError(requestId)>>
      [] lastHttp.status \in NonOkStatuses -> <<TransportError(lastHttp.status)>>
      [] OTHER -> << >>

\* C6: nothing is retried or resubmitted: a single-job tool issues at most
\* one submit POST in every execution, none after its job ended in failed,
\* timeout or transport error, and the handler ends in the client's error
\* unchanged.
C6_Step ==
    /\ tool' \in SingleJobTools => Len(posts') <= 1
    /\ ClientRaised' # << >> => (pc' = "failed" /\ thrown' = ClientRaised')
    /\ ClientRaised # << >> =>
          /\ posts' = posts /\ polls' = polls /\ oracleCalls' = oracleCalls
          /\ pc' = pc /\ thrown' = thrown /\ output' = << >>

C6_NoRetry == [][C6_Step]_vars

\* generate_bgm timed out after its one submit
C6_Witness ==
    /\ tool = "generate_bgm" /\ pc = "failed" /\ jobState = "TIMEOUT"
    /\ posts = <<"compose">> /\ thrown = <<TimeoutError(1)>> /\ output = << >>

----------------------------------------------------------------------------
(* Claims about the layer mapping (under MapperSpec).                      *)

LayerMapped == fn = "LAYER_TO_STEMS" /\ ret # << >>

\* the stem code of a primary layer
StemOf(layerName) ==
    CASE layerName = "backing" -> "bc"
      [] layerName = "bass" -> "bs"
      [] layerName = "drums" -> "dr"
      [] OTHER -> "me"

PrimaryStems == {"bc", "bs", "dr", "me"}
FillStems == {"fe", "ff"}

\* C11: for each recognized layer name L (backing, bass, drums, melody) the
\* mute list is exactly the stem codes of the other three primary layers plus
\* both fill codes fe and ff, and never holds L's own stem code.
C11_MuteSetOfLayer ==
    (LayerMapped /\ arg.layerName \in LayerKeys) =>
        /\ ret[1] # << >>
        /\ LET muteStems == ret[1][1]
               muted == {muteStems[i] : i \in 1..Len(muteStems)}
           IN  /\ muted = (PrimaryStems \ {StemOf(arg.layerName)}) \cup FillStems
               /\ Len(muteStems) = Cardinality(muted)
               /\ StemOf(arg.layerName) \notin muted

\* 'drums' has been looked up: bc, bs, me, fe, ff and no dr
C11_Witness ==
    /\ LayerMapped /\ arg.layerName = "drums"
    /\ ret[1] = << <<"bc", "bs", "me", "fe", "ff">> >>

----------------------------------------------------------------------------
(* Claims about adaptive_layer_control (under Spec).                       *)

Adaptive == tool = "adaptive_layer_control" /\ input # << >>

\* the positions of list whose name LAYER_TO_STEMS knows
Recognized(list) == {i \in 1..Len(list) : list[i] \in LayerKeys}

\* a recognized and an unrecognized layer name are both asked for
MixedLayers(list) ==
    /\ Recognized(list) # {}
    /\ Recognized(list) # 1..Len(list)

\* C12: adaptive_layer_control called with a recognized and an unrecognized
\* layer name, the generation client succeeding, does not raise and returns
\* exactly one layer result per recognized layer: the unrecognized name is
\* skipped and no job is submitted for it.
C12_UnknownLayerSkipped ==
    (Adaptive /\ MixedLayers(input[1].layers_to_keep) /\ ClientRaised = << >>) =>
        /\ thrown # <<ZodError>>
        /\ Len(posts) <= Cardinality(Recognized(input[1].layers_to_keep))
        /\ pc = "returned" =>
              /\ Len(output[1].layers) = Cardinality(Recognized(input[1].layers_to_keep))
              /\ Len(posts) = Len(output[1].layers)

\* the names of the collected layer results, in order
LayerNamesOf(results) == [i \in 1..Len(results) |-> results[i].name]

\* C13: the per-layer customize jobs are strictly sequential in the caller's
\* order: the submit for the layer at position i+1 is issued only in the step
\* that receives the 'done' answer of the job of the layer at position i, at
\* most one job of the invocation is in flight at any time, and the returned
\* layers list has the order of layers_to_keep.
C13_Step ==
    Adaptive' =>
        LET list == input'[1].layers_to_keep
        IN  \* a submit is for the next position, after the previous job is done
            /\ posts' # posts =>
                  /\ posts' = Append(posts, "customize")
                  /\ Len(posts') <= Len(list)
                  /\ req'.mute_stems = LAYER_TO_STEMS(list[Len(posts')])
                  /\ Len(posts) >= 1 =>
                        /\ pc = "polling" /\ jobState = "SUBMITTED" /\ remote = "done"
                        /\ Len(layers') = Len(posts)
                        /\ layers'[Len(posts)].request_id = requestId
            \* jobs submitted and not yet collected: at most one
            /\ Len(posts') - Len(layers') \in {0, 1}
            \* the results are collected in the caller's order
            /\ Len(layers') <= Len(list)
            /\ LayerNamesOf(layers') = SubSeq(list, 1, Len(layers'))
            /\ \A i \in 1..Len(layers') : layers'[i].request_id = i
            /\ pc' = "returned" =>
                  /\ LayerNamesOf(output'[1].layers) = list
                  /\ Len(posts') = Len(list)

C13_LayersSequential == [][C13_Step]_vars

\* melody then drums were asked for and came back in that order
C13_Witness ==
    /\ Adaptive /\ pc = "returned"
    /\ input[1].layers_to_keep = <<"melody", "drums">>
    /\ LayerNamesOf(output[1].layers) = <<"melody", "drums">>
    /\ posts = <<"customize", "customize">> /\ requestId = 2

----------------------------------------------------------------------------
(* Claims about the analyzers' handling of the completion (MapperSpec).    *)

Analyzed == fn \in {"analyzeSceneForMusic", "analyzeTransition"} /\ ret # << >>
AnalysisReturned == Analyzed /\ ~ret[1].threw

ValuesOf(list) == {list[i] : i \in 1..Len(list)}

\* C14: every result an analyzer returns has moods, genres and themes each
\* non-empty and each within its closed vocabulary, whatever lists the
\* oracle sent.
C14_ResultWithinVocabulary ==
    AnalysisReturned =>
        LET r == ret[1].value
        IN  /\ r.moods # << >> /\ ValuesOf(r.moods) \subseteq SOUNDRAW_MOODS
            /\ r.genres # << >> /\ ValuesOf(r.genres) \subseteq SOUNDRAW_GENRES
            /\ r.themes # << >> /\ ValuesOf(r.themes) \subseteq SOUNDRAW_THEMES

\* the oracle mixed unknown values into moods and genres; they were dropped
C14_Witness ==
    /\ AnalysisReturned /\ fn = "analyzeSceneForMusic"
    /\ arg.object.moods = <<"Grimdark", "Epic">>
    /\ arg.object.genres = <<"Rock", "Dungeon Synth">>
    /\ ret[1].value.moods = <<"Epic">> /\ ret[1].value.genres = <<"Rock">>

\* the values of list that are in vocab, in their order
Kept(list, vocab) == SelectSeq(list, LAMBDA x : x \in vocab)

SceneDefaults == [moods |-> "Epic", genres |-> "Orchestra", themes |-> "Gaming"]
TransitionDefaults == [moods |-> "Suspense", genres |-> "Orchestra", themes |-> "Cinematic"]

\* one category of a result: the default alone when nothing was kept, else
\* exactly what was kept
CategoryRepaired(sent, vocab, default, got) ==
    IF Kept(sent, vocab) = << >>
    THEN Len(got) = 1 /\ got = <<default>>
    ELSE got = Kept(sent, vocab)

\* C15: when the oracle's mood list is empty after vocabulary filtering the
\* result's mood list is exactly one element, the analyzer's fixed default;
\* the same holds independently for genres and themes; a category whose
\* filtered list is non-empty gets no default added.
C15_DefaultIsSingleton ==
    AnalysisReturned =>
        LET r == ret[1].value
            d == IF fn = "analyzeSceneForMusic" THEN SceneDefaults ELSE TransitionDefaults
        IN  /\ CategoryRepaired(arg.object.moods, SOUNDRAW_MOODS, d.moods, r.moods)
            /\ CategoryRepaired(arg.object.genres, SOUNDRAW_GENRES, d.genres, r.genres)
            /\ CategoryRepaired(arg.object.themes, SOUNDRAW_THEMES, d.themes, r.themes)

\* the transition analyzer got no usable mood but a usable genre and theme
C15_Witness ==
    /\ AnalysisReturned /\ fn = "analyzeTransition"
    /\ arg.object.moods = <<"Grimdark", "Grimdark">>
    /\ arg.object.genres = <<"Rock">> /\ arg.object.themes = <<"Roguelike", "Gaming">>
    /\ ret[1].value.moods = <<"Suspense">>
    /\ ret[1].value.genres = <<"Rock">> /\ ret[1].value.themes = <<"Gaming">>

\* C16: the post-parse validation is idempotent: applied to a result it
\* produced it yields the same moods, genres and themes, for both analyzers;
\* every substituted default is a member of its vocabulary.
C16_ValidationIdempotent ==
    /\ AnalysisReturned =>
          LET r == ret[1].value
              again == IF fn = "analyzeSceneForMusic" THEN ValidateSceneParams(r)
                       ELSE ValidateTransitionParams(r)
          IN  /\ again.moods = r.moods
              /\ again.genres = r.genres
              /\ again.themes = r.themes
    /\ {SceneDefaults.moods, TransitionDefaults.moods} \subseteq SOUNDRAW_MOODS
    /\ {SceneDefaults.genres, TransitionDefaults.genres} \subseteq SOUNDRAW_GENRES
    /\ {SceneDefaults.themes, TransitionDefaults.themes} \subseteq SOUNDRAW_THEMES

\* a result holding a substituted default was validated once more, unchanged
C16_Witness ==
    /\ AnalysisReturned /\ fn = "analyzeSceneForMusic"
    /\ arg.object.moods = <<"Grimdark">> /\ arg.object.themes = << >>
    /\ ret[1].value.moods = <<"Epic">> /\ ret[1].value.themes = <<"Gaming">>
    /\ ValidateSceneParams(ret[1].value) = ret[1].value

\* the text of one JSON object between an opening fence, with or without a
\* language tag, and a closing fence
FencedObjects ==
    { o \o <<"{}">> \o c : o \in FenceOpenings \ {<< >>}, c \in FenceClosings \ {<< >>} }

\* C17: a valid JSON object wrapped in a markdown code fence, with or without
\* a language tag after the opening marker, is parsed successfully and gives
\* the same result as the unfenced reply.
C17_FenceStripped ==
    (Analyzed /\ arg.content \in FencedObjects) =>
        /\ ~ret[1].threw
        /\ ret[1] = IF fn = "analyzeSceneForMusic"
                    THEN analyzeSceneForMusic(<<"{}">>, arg.object)
                    ELSE analyzeTransition(<<"{}">>, arg.object)

----------------------------------------------------------------------------
(* Claims about the handlers' use of the analyzer and of the requests      *)
(* (under Spec).                                                           *)


\* the analyzer raised: the completion did not parse, or the request failed
AnalysisFailed == thrown \in {<<ParseError>>, <<OracleError>>}

\* C18: when the oracle's reply is not valid JSON after fence-stripping, or
\* the oracle call itself fails, the analyzer raises without calling the
\* oracle again, and the invocation of generate_bgm or scene_transition_music
\* ends in that error without ever submitting a generation request.
C18_Step ==
    /\ oracleCalls' <= 1
    /\ (pc = "analyzing" /\ analysis' = << >> /\ pc' # "analyzing") =>
          /\ pc' = "failed"
          /\ thrown' \in {<<ParseError>>, <<OracleError>>, <<NoResponseError>>}
    /\ AnalysisFailed' =>
          /\ tool' \in AnalyzerTools
          /\ pc' = "failed" /\ output' = << >> /\ analysis' = << >>
          /\ oracleCalls' = 1
          /\ posts' = << >> /\ jobState' = "none" /\ polls' = 0
    /\ AnalysisFailed =>
          /\ thrown' = thrown /\ pc' = pc
          /\ oracleCalls' = oracleCalls /\ posts' = posts

C18_AnalysisFailureIsFatal == [][C18_Step]_vars

\* generate_bgm got a completion that does not parse
C18_Witness ==
    /\ tool = "generate_bgm" /\ pc = "failed" /\ thrown = <<ParseError>>
    /\ oracleCalls = 1 /\ posts = << >> /\ output = << >>

\* generate_bgm's duration: input.duration_seconds ?? 60
EffectiveDuration(in) ==
    IF in.duration_seconds = << >> THEN Num(60) ELSE in.duration_seconds[1]

\* the scenario: 30 seconds asked for, the analyzer said 'climax' and 'high',
\* the job was 'done' on the first poll with bpm "142" and length 30
DoneAtOnceScenario ==
    /\ tool = "generate_bgm" /\ pc = "returned"
    /\ input[1].duration_seconds = <<Num(30)>>
    /\ analysis[1].energy_profile = "climax" /\ analysis[1].tempo = "high"
    /\ polls = 1
    /\ lastAnswer[1].result[1].bpm = <<"1", "4", "2">>
    /\ lastAnswer[1].result[1].length = Num(30)

\* C19: in the scenario generate_bgm returns bpm the integer 142,
\* duration_seconds 30 and soundraw_params.energy_levels exactly
\* [0, 7.5, High], [7.5, 30, Very High]; in general soundraw_params is the
\* request body that was submitted and its energy_levels are the profile
\* mapper's output for the analyzer's energy_profile and the effective
\* duration (default 60).
C19_GenerateBgmOutput ==
    /\ DoneAtOnceScenario =>
          /\ output[1].bpm = <<142>>
          /\ output[1].duration_seconds = Num(30)
          /\ output[1].soundraw_params.energy_levels =
                << << Seg(Num(0), <<15, 2>>, "High"),
                      Seg(<<15, 2>>, Num(30), "Very High") >> >>
    /\ (tool = "generate_bgm" /\ pc = "returned") =>
          /\ posts = <<"compose">>
          /\ output[1].soundraw_params = req
          /\ req.length = <<EffectiveDuration(input[1])>>
          /\ req.energy_levels =
                << getEnergyLevels(analysis[1].energy_profile,
                                   EffectiveDuration(input[1])) >>

C19_Witness ==
    /\ DoneAtOnceScenario
    /\ output[1].bpm = <<142>>
    /\ Len(output[1].soundraw_params.energy_levels[1]) = 2

\* get_bgm_variations accepted its input and went on to submit
VariationsAccepted ==
    /\ tool = "get_bgm_variations" /\ input # << >>
    /\ thrown \notin {<<ZodError>>, <<SoundrawKeyError>>}

\* C20: get_bgm_variations issues exactly one submit per invocation, to the
\* similar endpoint for 'similar' and to the customize endpoint for
\* 'customize'; a 'customize' call with neither energy_preset nor mute_stems
\* is not rejected and submits a customize request with no energy_levels and
\* no mute_stems.
C20_VariationSubmit ==
    /\ VariationsAccepted =>
          /\ posts = <<input[1].variation_type>>
          /\ input[1].variation_type \in {"similar", "customize"}
    /\ (tool = "get_bgm_variations" /\ input # << >>
          /\ IsUrl(input[1].share_link) /\ input[1].variation_type = "customize"
          /\ input[1].energy_preset = << >> /\ input[1].mute_stems = << >>) =>
          /\ thrown # <<ZodError>>
          /\ posts = <<"customize">>
          /\ req.energy_levels = << >> /\ req.mute_stems = << >>
          /\ req.share_link = <<input[1].share_link>>

\* a customize call without preset and stems ran to its result
C20_Witness ==
    /\ tool = "get_bgm_variations" /\ pc = "returned"
    /\ input[1].variation_type = "customize"
    /\ input[1].energy_preset = << >> /\ input[1].mute_stems = << >>
    /\ posts = <<"customize">> /\ req.energy_levels = << >> /\ req.mute_stems = << >>

\* the energy-segment lists the oracle sends for transitions
OracleLevels == {r.energy_levels : r \in TransitionReplies}

\* C21: scene_transition_music passes the analyzer's energy-segment list
\* into the compose request unmodified (same segments, same order, not
\* checked against the duration), with the request length equal to the
\* input's duration_seconds.
C21_LevelsPassedThrough ==
    (tool = "scene_transition_music" /\ posts # << >>) =>
        /\ posts = <<"compose">>
        /\ req.energy_levels = <<analysis[1].energy_levels>>
        /\ analysis[1].energy_levels \in OracleLevels
        /\ req.length = <<input[1].duration_seconds>>

\* 20 seconds were asked for, the oracle's one segment ends at 5: sent as is
C21_Witness ==
    /\ tool = "scene_transition_music" /\ pc = "returned"
    /\ input[1].duration_seconds = Num(20)
    /\ req.energy_levels = << << Seg(Num(0), Num(5), "Medium") >> >>
    /\ req.length = <<Num(20)>>

\* the input violates its tool's schema: a required field is missing, a
\* value is outside its closed enumeration, or a duration is out of range
SchemaViolated(t, a) ==
    CASE t = "generate_bgm" ->
           \/ a.scene = << >>
           \/ a.intensity \notin {"low", "medium", "high"}
           \/ /\ a.duration_seconds # << >>
              /\ \/ Less(a.duration_seconds[1], Num(10))
                 \/ Less(Num(300), a.duration_seconds[1])
      [] t = "scene_transition_music" ->
           \/ a.transition_type \notin {"fade", "stinger", "crossfade"}
           \/ Less(a.duration_seconds, Num(10))
           \/ Less(Num(60), a.duration_seconds)
      [] t = "get_bgm_variations" -> a.share_link = "not a url"
      [] t = "adaptive_layer_control" ->
           \E i \in 1..Len(a.layers_to_keep) :
               a.layers_to_keep[i] \notin {"backing", "bass", "drums", "melody"}
      [] OTHER -> FALSE

\* C22: every handler validates its input before any external call: an
\* input that violates the schema ends the invocation in an error with no
\* oracle call and no generation submit issued.
C22_ValidationFirst ==
    (tool # "" /\ SchemaViolated(tool, input[1])) =>
        /\ pc = "failed" /\ thrown = <<ZodError>> /\ output = << >>
        /\ oracleCalls = 0 /\ ~client
        /\ posts = << >> /\ polls = 0 /\ lastHttp = Http("none", 0)

\* a transition of 90 seconds was asked for
C22_Witness ==
    /\ tool = "scene_transition_music" /\ pc = "failed" /\ thrown = <<ZodError>>
    /\ input[1].duration_seconds = Num(90) /\ input[1].transition_type = "fade"
    /\ oracleCalls = 0 /\ posts = << >>

\* C26: adaptive_layer_control does no recovery of its own: when the job of
\* the layer at position k ends in failed, timeout or transport error, the
\* handler raises that error, returns none of the results collected for the
\* layers before k, and submits no job for any layer after k.
C26_Step ==
    /\ (Adaptive' /\ ClientRaised' # << >>) =>
          /\ pc' = "failed" /\ thrown' = ClientRaised'
          /\ output' = << >>
          /\ Len(layers') = Len(posts') - 1
    /\ (Adaptive /\ ClientRaised # << >>) =>
          /\ posts' = posts /\ layers' = layers
          /\ pc' = "failed" /\ output' = << >>

C26_NoPartialResults == [][C26_Step]_vars

\* the first layer's job was done and collected, the second one's failed
C26_Witness ==
    /\ Adaptive /\ pc = "failed" /\ jobState = "FAILED"
    /\ Len(input[1].layers_to_keep) = 2
    /\ Len(layers) = 1 /\ Len(posts) = 2
    /\ thrown = <<FailedError(2)>> /\ output = << >>

----------------------------------------------------------------------------
(* Claims about the order and the reach of the external calls (Spec).      *)

\* the client's wait for the current job is over
JobEnded == jobState \in {"DONE", "FAILED", "TIMEOUT"} \/ PollWasRejected

\* the step sends a GET of the result resource
PollIssued == pc' = "polling" /\ pc # "polling"

\* C28: terminal outcomes are final for the client: once a poll of a request
\* id was answered 'done' or 'failed', or the loop ended in timeout or
\* transport error, the client issues no other poll and no other request for
\* that request id.
C28_Step ==
    /\ PollIssued =>
          /\ requestId' > 0 /\ ~JobEnded'
          /\ polls' = polls + 1
          /\ lastAnswer' # << >> =>
                /\ lastAnswer'[1].request_id = requestId'
                /\ lastAnswer'[1].status \notin {"done", "failed"}
    /\ polls' # polls => (PollIssued \/ (posts' # posts /\ polls' = 0))
    /\ (JobEnded /\ requestId' = requestId) =>
          /\ polls' = polls /\ sleeps' = sleeps /\ posts' = posts
          /\ pc' \notin {"polling", "sleeping", "submitting"}
    \* a request id is never taken up again
    /\ requestId' # requestId =>
          \/ requestId' = 0 /\ posts' # posts
          \/ requestId = 0 /\ requestId' = Len(posts')

C28_TerminalIsFinal == [][C28_Step]_vars

\* the job was done after some waiting and nothing more was polled
C28_Witness ==
    /\ jobState = "DONE" /\ pc = "returned" /\ polls = 3 /\ sleeps = 2
    /\ lastAnswer[1].status = "done" /\ requestId = 1

\* C29: within one invocation the external calls are strictly ordered: the
\* oracle call (where the tool has one) completes before the submit POST is
\* issued, the submit POST returns a request id before the first poll, every
\* poll uses the request id of the invocation's own submit; generate_bgm and
\* scene_transition_music issue exactly one oracle call, get_bgm_variations
\* and adaptive_layer_control none.
C29_Step ==
    /\ oracleCalls' # oracleCalls =>
          /\ oracleCalls = 0 /\ oracleCalls' = 1
          /\ pc' = "analyzing" /\ posts' = << >> /\ analysis' = << >>
    /\ posts' # posts =>
          /\ pc' = "submitting" /\ requestId' = 0 /\ polls' = 0
          /\ tool' \in AnalyzerTools =>
                /\ pc = "analyzing" /\ analysis' # << >> /\ oracleCalls' = 1
    /\ PollIssued =>
          /\ requestId' = Len(posts') /\ requestId' > 0
          /\ pc = "submitting" => (polls' = 1 /\ lastHttp' = Http("POST", OkStatus))
          /\ pc # "submitting" => requestId' = requestId
    /\ lastAnswer' # << >> => lastAnswer'[1].request_id = requestId'
    /\ tool' \notin AnalyzerTools => (oracleCalls' = 0 /\ analysis' = << >>)
    /\ (tool' \in AnalyzerTools /\ thrown' # <<ZodError>>) => oracleCalls' = 1

C29_CallsOrdered == [][C29_Step]_vars

\* generate_bgm went through oracle, submit and two polls
C29_Witness ==
    /\ tool = "generate_bgm" /\ pc = "returned" /\ oracleCalls = 1
    /\ posts = <<"compose">> /\ requestId = 1 /\ polls = 2
    /\ lastAnswer[1].request_id = 1

\* C30: the client never changes or cancels a remote job: apart from the
\* submit POST that creates it, only the service moves the job's status; a
\* local timeout ends only the local wait, so after a timeout the remote job
\* may still be 'processing' and may reach 'done' or 'failed' unobserved.
C30_Step ==
    /\ remote' # remote =>
          \* a submit call begins: its job does not exist yet
          \/ /\ posts' # posts /\ remote' = "none" /\ remote = "done"
          \* the submit POST is accepted: the job is created
          \/ /\ remote = "none" /\ remote' = "processing"
             /\ pc = "submitting" /\ lastHttp' = Http("POST", OkStatus)
          \* the service finishes the job; the client does nothing
          \/ /\ remote = "processing" /\ remote' \in {"done", "failed"}
             /\ UNCHANGED <<pc, posts, polls, sleeps, attempt, jobState, lastAnswer,
                            lastHttp, thrown, output>>
    /\ (jobState' = "TIMEOUT" /\ jobState # "TIMEOUT") => remote' = remote
    /\ jobState = "TIMEOUT" => UNCHANGED <<pc, posts, polls, jobState, lastAnswer, thrown>>

C30_RemoteJobUntouched == [][C30_Step]_vars

\* the remote job reached 'done' although the client timed out: every answer
\* the client saw was non-terminal
C30_Witness ==
    /\ jobState = "TIMEOUT" /\ pc = "failed" /\ remote = "done"
    /\ nonTerminal = MAX_POLL_ATTEMPTS /\ lastAnswer[1].status = "processing"

----------------------------------------------------------------------------
(* Termination of the poll loop (under FairSpec).                          *)

\* pollForResult is running: a GET is awaited or the sleep is
InPollLoop == pc \in {"polling", "sleeping"}

\* the number of outcomes the ended wait has, of the four there are
OutcomesReached ==
    Cardinality({ o \in {"done", "failed", "transport error", "timeout"} :
        CASE o = "done" -> jobState = "DONE"
          [] o = "failed" -> jobState = "FAILED"
          [] o = "timeout" -> jobState = "TIMEOUT"
          [] OTHER -> PollWasRejected })

C27_OneOutcome ==
    /\ InPollLoop => (OutcomesReached = 0 /\ polls <= MAX_POLL_ATTEMPTS)
    /\ (pc \in {"returned", "failed"} /\ requestId > 0) =>
          /\ OutcomesReached = 1
          /\ polls >= 1 /\ polls <= MAX_POLL_ATTEMPTS

\* C27: every call of pollForResult terminates, provided each HTTP request
\* returns: it ends in exactly one of the four outcomes done, failed,
\* transport error or timeout, after at least one and at most 150 polls.
C27_PollTerminates ==
    /\ []C27_OneOutcome
    /\ InPollLoop ~> ~InPollLoop

\* the loop ran all its attempts and ended in the timeout
C27_Witness ==
    /\ pc = "failed" /\ requestId = 1 /\ jobState = "TIMEOUT"
    /\ OutcomesReached = 1 /\ polls = MAX_POLL_ATTEMPTS

----------------------------------------------------------------------------
(* Claims about credentials, the shared client handle and invocations in   *)
(* flight together (under ServerSpec).                                     *)

\* the invocation has returned its result or raised its error
CallEnded(c) == c.pc \in {"returned", "failed"}

\* C23: a missing credential is raised on first use of the client it
\* belongs to.  While SOUNDRAW_API_KEY is absent no step of any invocation
\* sends a POST or a GET: the invocation that reaches a submit call or a
\* poll ends in the key error instead (a poll already sent may still be
\* answered with the result).  While DEEPSEEK_API_KEY is absent and
\* no handle exists, an invocation that enters the analyzer ends in the key
\* error with no oracle request sent and no handle cached; once the key is
\* present the next such invocation constructs the handle and goes on to its
\* oracle request.
C23_Step ==
    \A i \in Calls :
        LET c == calls[i]
            d == calls'[i]
        IN  /\ (d.posts > c.posts \/ d.polls > c.polls) => soundrawKey
            /\ (d # c /\ ~soundrawKey /\ d.pc # "analyzing") =>
                  /\ CallEnded(d)
                  /\ d.posts = c.posts /\ d.polls = c.polls
                  /\ d.pc = "failed" \/ (c.pc = "polling" /\ d.last = "done")
            /\ (d # c /\ d.thrown = <<SoundrawKeyError>>) =>
                  /\ ~soundrawKey
                  /\ d.pc = "failed" /\ d.posts = c.posts /\ d.polls = c.polls
            /\ d.oracle > c.oracle =>
                  /\ client \/ deepseekKey
                  /\ client' /\ d.handle = handles' /\ d.pc = "analyzing"
            /\ (d # c /\ d.thrown = <<DeepseekKeyError>>) =>
                  /\ ~deepseekKey /\ ~client
                  /\ ~client' /\ handles' = handles
                  /\ d.oracle = 0 /\ d.posts = 0 /\ d.handle = 0
            /\ (c.pc = "idle" /\ d # c /\ d.tool \in AnalyzerTools /\ ~client) =>
                  IF deepseekKey
                  THEN client' /\ handles' = handles + 1 /\ d.oracle = 1 /\ d.pc = "analyzing"
                  ELSE d.thrown = <<DeepseekKeyError>>

C23_MissingCredentialIsFatal == [][C23_Step]_vars

\* one invocation ended in the oracle's key error; a later one constructed
\* the handle, submitted and polled once, and then found the Soundraw key gone
C23_Witness ==
    /\ calls[1].thrown = <<DeepseekKeyError>>
    /\ calls[2].tool = "generate_bgm" /\ calls[2].handle = 1
    /\ calls[2].posts = 1 /\ calls[2].polls = 1
    /\ calls[2].thrown = <<SoundrawKeyError>>

\* C24: however the invocations interleave, the oracle client handle is
\* constructed at most once; once it exists it is never replaced or reset,
\* and every analyzer call that sent its request used that one handle.
C24_State ==
    /\ handles <= 1
    /\ client <=> handles = 1
    /\ \A i \in Calls :
          /\ calls[i].oracle > 0 => calls[i].handle = 1
          /\ calls[i].handle \in {0, 1}

C24_Step ==
    /\ C24_State /\ C24_State'
    /\ client => client'
    /\ handles' >= handles
    /\ \A i \in Calls : calls[i].handle # 0 => calls'[i].handle = calls[i].handle

C24_OneClientHandle == [][C24_Step]_vars

\* two analyzer calls in flight at once, on the one handle
C24_Witness ==
    /\ \A i \in {1, 2} : calls[i].pc = "analyzing" /\ calls[i].handle = 1
    /\ handles = 1

\* what an invocation's counters and outcome are, given the answers to its
\* own polls (how many were non-terminal, and what the last one said)
OwnOutcome(c) ==
    /\ c.attempt = c.pending
    /\ c.pc = "polling" => c.polls = c.pending + 1
    /\ c.pc = "returned" <=> c.last = "done"
    /\ c.last = "done" => c.polls = c.pending + 1 /\ c.thrown = << >>
    /\ c.last = "failed" <=> (c.requestId # 0 /\ c.thrown = <<FailedError(c.requestId)>>)
    /\ c.last = "failed" => c.polls = c.pending + 1
    /\ c.pending = MAX_POLL_ATTEMPTS <=>
          (c.requestId # 0 /\ c.thrown = <<TimeoutError(c.requestId)>>)
    /\ c.pending = MAX_POLL_ATTEMPTS => c.polls = MAX_POLL_ATTEMPTS
    /\ c.pending <= MAX_POLL_ATTEMPTS

\* C25: invocations in flight together are independent.  Each has a request
\* id of its own; a step of one invocation changes the counters and the
\* outcome of no other; an invocation that has ended stays as it ended; and
\* the polls an invocation issued and the way it ended are those its own
\* answers determine.
C25_Step ==
    \A i \in Calls :
        LET c == calls[i]
            d == calls'[i]
        IN  /\ c.pc = "idle" => OwnOutcome(c)
            /\ d # c =>
                  /\ \A j \in Calls \ {i} : calls'[j] = calls[j]
                  /\ ~CallEnded(c)
                  /\ OwnOutcome(d)
                  /\ c.requestId # 0 => d.requestId = c.requestId
                  /\ \A j \in Calls \ {i} :
                        d.requestId # 0 => d.requestId # calls[j].requestId

C25_InvocationsIndependent == [][C25_Step]_vars

\* one invocation timed out on its job while another got one non-terminal
\* answer and then its result
C25_Witness ==
    /\ calls[1].thrown = <<TimeoutError(calls[1].requestId)>>
    /\ calls[1].polls = MAX_POLL_ATTEMPTS
    /\ calls[2].pc = "returned" /\ calls[2].pending = 1 /\ calls[2].polls = 2
    /\ calls[2].requestId # calls[1].requestId

----------------------------------------------------------------------------
(* Further claims about the poll loop (under Spec).                        *)

\* C31: every non-terminal poll answer, the MAX_POLL_ATTEMPTS-th included,
\* is followed by one sleep of the fixed interval, so the sleeps started
\* always equal the non-terminal answers received; the timeout error is
\* raised only at the end of a sleep, after MAX_POLL_ATTEMPTS polls and
\* MAX_POLL_ATTEMPTS sleeps.
C31_Step ==
    /\ sleeps = nonTerminal /\ sleeps' = nonTerminal'
    /\ nonTerminal' = nonTerminal + 1 =>
          /\ pc = "polling" /\ pc' = "sleeping"
          /\ sleeps' = sleeps + 1 /\ lastIo' = "sleep"
          /\ polls' = polls
    /\ (jobState' = "TIMEOUT" /\ jobState # "TIMEOUT") =>
          /\ pc = "sleeping" /\ lastIo = "sleep"
          /\ polls = MAX_POLL_ATTEMPTS /\ sleeps = MAX_POLL_ATTEMPTS
          /\ SleptMs = MAX_POLL_ATTEMPTS * POLL_INTERVAL_MS
          /\ polls' = polls /\ sleeps' = sleeps
          /\ thrown' = <<TimeoutError(requestId)>>

C31_SleepAfterEveryNonTerminal == [][C31_Step]_vars

\* the timeout was raised after the sleep that followed the last poll
C31_Witness ==
    /\ jobState = "TIMEOUT" /\ thrown = <<TimeoutError(requestId)>>
    /\ polls = MAX_POLL_ATTEMPTS /\ sleeps = MAX_POLL_ATTEMPTS
    /\ nonTerminal = MAX_POLL_ATTEMPTS /\ lastIo = "sleep"

\* a 2xx poll answer that is neither 'done' nor 'failed' has just been taken
NonTerminalAnswered ==
    /\ pc = "polling" /\ pc' # "polling"
    /\ lastHttp' = Http("GET", OkStatus)
    /\ lastAnswer' # << >>
    /\ lastAnswer'[1].status \notin {"done", "failed"}

\* C32: a 2xx poll answer whose status is neither 'done' nor 'failed', be it
\* 'processing', some other word or no status at all, only makes the loop
\* sleep: whatever the status, nothing is returned or raised and the counters
\* move as for 'processing'; from the sleep the handler goes on only to the
\* next poll with one more attempt consumed, or to the timeout error.
C32_Step ==
    /\ \A status \in NonTerminalStatuses :
          PollDisposition(status) = PollDisposition("processing")
    /\ NonTerminalAnswered =>
          /\ pc' = "sleeping"
          /\ nonTerminal' = nonTerminal + 1 /\ sleeps' = sleeps + 1
          /\ UNCHANGED <<attempt, polls, jobState, pollResult, thrown, output, posts,
                         requestId, layers>>
    /\ (pc = "sleeping" /\ pc' # "sleeping") =>
          /\ attempt' = attempt + 1
          /\ \/ pc' = "polling" /\ polls' = polls + 1 /\ thrown' = << >>
             \/ /\ pc' = "failed" /\ thrown' = <<TimeoutError(requestId)>>
                /\ attempt' = MAX_POLL_ATTEMPTS
          /\ UNCHANGED <<pollResult, output, posts>>

C32_UnknownStatusIsProcessing == [][C32_Step]_vars

\* two answers without a recognized status were slept on, the last of them
\* carrying no status at all
C32_Witness ==
    /\ pc = "sleeping" /\ nonTerminal = 2 /\ attempt = 1
    /\ lastAnswer # << >> /\ lastAnswer[1].status = Undefined
    /\ thrown = << >> /\ pollResult = << >>

----------------------------------------------------------------------------
(* Further claims about the handlers' results (under Spec).                *)

NoResultError == Error("No result in Soundraw response", 0, 0)

\* pollForResult has returned a 'done' answer that carries no result payload
DoneWithoutResult ==
    /\ jobState = "DONE" /\ pollResult # << >>
    /\ pollResult[1].status = "done" /\ pollResult[1].result = << >>

\* C33: a 'done' answer without a result payload is returned by
\* pollForResult like any other 'done' answer (the job is DONE, not FAILED,
\* and the answer is the value returned); the error 'No result in Soundraw
\* response' comes from extractResult, and with it the handler of every tool
\* ends without output; adaptive_layer_control submits no further layer and
\* keeps no record of the layers it had collected.
C33_State ==
    /\ DoneWithoutResult =>
          /\ pollResult = lastAnswer /\ pollResult[1].request_id = requestId
          /\ pc = "failed" /\ thrown = <<NoResultError>>
          /\ output = << >>
    /\ thrown = <<NoResultError>> =>
          /\ DoneWithoutResult
          /\ extractResult(pollResult[1], FormatOf(req)).threw

C33_Step ==
    /\ C33_State /\ C33_State'
    /\ thrown = <<NoResultError>> =>
          UNCHANGED <<pc, thrown, output, posts, polls, layers, layerIdx>>
    /\ (thrown' = <<NoResultError>> /\ thrown = << >>) =>
          /\ pc = "polling" /\ jobState = "SUBMITTED"
          /\ posts' = posts /\ output' = << >>

C33_DoneWithoutResultFails == [][C33_Step]_vars

\* the first of two layers came back 'done' without a result: the second
\* layer was never submitted
C33_Witness ==
    /\ tool = "adaptive_layer_control" /\ Len(input[1].layers_to_keep) = 2
    /\ DoneWithoutResult /\ thrown = <<NoResultError>>
    /\ Len(posts) = 1 /\ layers = << >> /\ output = << >>

\* the file format generate_bgm was asked for (m4a when none was given)
RequestedFormat(in) == IF in.file_format = << >> THEN "m4a" ELSE in.file_format[1]

\* C34: generate_bgm reports as file_format the format that was requested
\* (m4a by default), whatever URL extraction chose: the audio_url is
\* getAudioUrl's pick for that format, which may be the URL of another
\* format or the empty string.
C34_ReportedFormatIsRequested ==
    (tool = "generate_bgm" /\ pc = "returned") =>
        /\ output[1].file_format = RequestedFormat(input[1])
        /\ req.file_format = << <<RequestedFormat(input[1])>> >>
        /\ output[1].audio_url =
              getAudioUrl(pollResult[1].result[1], RequestedFormat(input[1]))
        /\ output[1].audio_url \in
              {"", UrlOf("m4a"), UrlOf("mp3"), UrlOf("wav")}

\* wav was asked for and reported, and the URL returned is the m4a one
C34_Witness ==
    /\ tool = "generate_bgm" /\ pc = "returned"
    /\ input[1].file_format = <<"wav">> /\ output[1].file_format = "wav"
    /\ output[1].audio_url = UrlOf("m4a")

\* get_bgm_variations has submitted a 'customize' request with a preset
CustomizeWithPreset ==
    /\ tool = "get_bgm_variations" /\ posts = <<"customize">>
    /\ input[1].variation_type = "customize" /\ input[1].energy_preset # << >>

\* the segments are contiguous, each of positive length, from 0 to 60
SpansSixty(segs) ==
    /\ Len(segs) >= 1
    /\ segs[1].start = Num(0)
    /\ segs[Len(segs)].end = Num(60)
    /\ \A k \in 1..(Len(segs) - 1) : segs[k].end = segs[k + 1].start
    /\ \A k \in 1..Len(segs) : Less(segs[k].start, segs[k].end)

\* C35: the energy_levels of a 'customize' request with an energy_preset are
\* the preset's segments for the default duration of 60 seconds: contiguous
\* segments from 0 to 60 for each of the four presets, whatever length was
\* given in the input and whatever length the track of the result has.
C35_PresetOverSixtySeconds ==
    /\ \A preset \in EnergyPresets :
          SpansSixty(getEnergyPreset(preset, Num(DefaultPresetDuration)))
    /\ CustomizeWithPreset =>
          /\ req.energy_levels # << >>
          /\ req.energy_levels[1] =
                getEnergyPreset(input[1].energy_preset[1], Num(DefaultPresetDuration))
          /\ SpansSixty(req.energy_levels[1])

\* a length of 45 was given and the track returned is 31 seconds long, yet
\* the preset was laid out over 60 seconds
C35_Witness ==
    /\ CustomizeWithPreset /\ pc = "returned"
    /\ input[1].length = <<Num(45)>>
    /\ output[1].duration_seconds = Num(31)
    /\ req.energy_levels[1][Len(req.energy_levels[1])].end = Num(60)

----------------------------------------------------------------------------
(* Further claims about the mappers and the analyzer (under MapperSpec).   *)

\* either mapper has been applied to a keyword and a duration
MapperApplied == fn \in {"getEnergyLevels", "getEnergyPreset"} /\ ret # << >>

\* keywords that neither mapper has a case for
UnrecognizedKeywords == Keywords \ (EnergyProfiles \cup EnergyPresets)

\* C36: for every duration d the two mappers return the same segment list
\* for 'building', for 'steady' and for a keyword neither recognizes (for
\* which both return the steady list); for 'climax' the preset mapper
\* returns the single segment [0, d] Very High and the profile mapper two
\* segments.
C36_MappersAgree ==
    MapperApplied =>
        LET k == IF fn = "getEnergyPreset" THEN arg.preset ELSE arg.profile
            d == arg.durationSeconds
            preset == IF fn = "getEnergyPreset" THEN ret[1] ELSE getEnergyPreset(k, d)
            profile == IF fn = "getEnergyLevels" THEN ret[1] ELSE getEnergyLevels(k, d)
        IN  /\ k \in {"building", "steady"} \cup UnrecognizedKeywords => preset = profile
            /\ k \in UnrecognizedKeywords =>
                  /\ preset = getEnergyPreset("steady", d)
                  /\ profile = getEnergyLevels("steady", d)
            /\ k = "climax" =>
                  /\ preset = << Seg(Num(0), d, "Very High") >>
                  /\ Len(profile) = 2
                  /\ preset # profile

\* the preset mapper has returned its one-segment 'climax' where the
\* profile mapper has two segments
C36_Witness ==
    /\ fn = "getEnergyPreset" /\ ret # << >> /\ arg.preset = "climax"
    /\ Len(ret[1]) = 1
    /\ Len(getEnergyLevels("climax", arg.durationSeconds)) = 2

\* a completion that is not valid JSON after fence-stripping
InvalidJson == <<"o", "n">>

\* the completion parsed to an object that lacks one of the three arrays
CategoryMissing ==
    /\ Analyzed /\ arg.content # << >>
    /\ JsonParse(StripFence(arg.content)) = "object"
    /\ ~HasCategoryArrays(arg.object)

\* C38: a reply that is valid JSON but lacks the moods, genres or themes
\* array makes the analyzer raise the error it raises for invalid JSON; a
\* result the analyzer returns has all three categories, each of them in the
\* reply, so that no default ever stands in for a missing category.
C38_MissingCategoryIsParseFailure ==
    /\ JsonParse(StripFence(InvalidJson)) = "SyntaxError"
    /\ CategoryMissing =>
          /\ ret[1].threw
          /\ fn = "analyzeSceneForMusic" =>
                ret[1] = analyzeSceneForMusic(InvalidJson, arg.object)
          /\ fn = "analyzeTransition" =>
                ret[1] = analyzeTransition(InvalidJson, arg.object)
    /\ AnalysisReturned =>
          /\ HasCategoryArrays(arg.object)
          /\ HasCategoryArrays(ret[1].value)
          /\ DOMAIN ret[1].value = DOMAIN arg.object

\* an object without its genres array came back as the parse failure
C38_Witness ==
    /\ CategoryMissing /\ fn = "analyzeSceneForMusic"
    /\ "genres" \notin DOMAIN arg.object
    /\ "moods" \in DOMAIN arg.object /\ "themes" \in DOMAIN arg.object
    /\ ret[1] = Throw("Failed to parse music parameters")

----------------------------------------------------------------------------
(* Further claims about the requests of get_bgm_variations (under Spec).   *)

\* C37: get_bgm_variations keeps its two request shapes apart.  A 'similar'
\* request carries no energy_levels, whatever energy_preset was given, and
\* carries length and mute_stems exactly as the input has them (an empty
\* list included); a 'customize' request carries no length, whatever length
\* was given, and carries mute_stems only when the input list is non-empty.
C37_RequestShapes ==
    (tool = "get_bgm_variations" /\ posts # << >>) =>
        LET in == input[1] IN
        /\ posts = <<in.variation_type>>
        /\ req.share_link = <<in.share_link>>
        /\ in.variation_type = "similar" =>
              /\ req.energy_levels = << >>
              /\ req.length = in.length
              /\ req.mute_stems = in.mute_stems
        /\ in.variation_type = "customize" =>
              /\ req.length = << >>
              /\ req.mute_stems # << >> <=>
                    (in.mute_stems # << >> /\ Len(in.mute_stems[1]) > 0)
              /\ req.mute_stems # << >> => req.mute_stems = in.mute_stems

\* a 'similar' request made with a preset and an empty stem list: no
\* energy_levels, and the empty list forwarded
C37_Witness ==
    /\ tool = "get_bgm_variations" /\ posts = <<"similar">>
    /\ input[1].energy_preset # << >> /\ input[1].mute_stems = << << >> >>
    /\ req.energy_levels = << >> /\ req.mute_stems = << << >> >>

\* a handler whose output has a duration_seconds has returned
DurationReported ==
    /\ tool \in {"generate_bgm", "scene_transition_music", "get_bgm_variations"}
    /\ pc = "returned"

\* the end of the last energy segment of the request body
LastSegmentEnd(params) ==
    params.energy_levels[1][Len(params.energy_levels[1])].end

\* C39: the duration_seconds of an output is the length the service
\* measured and put into the job result, whatever duration was requested;
\* it can differ from soundraw_params.length and from the end of the last
\* submitted energy segment.
C39_DurationIsMeasured ==
    DurationReported =>
        /\ pollResult # << >> /\ pollResult[1].result # << >>
        /\ output[1].duration_seconds = pollResult[1].result[1].length
        /\ output[1].duration_seconds =
              extractResult(pollResult[1], FormatOf(req)).value.duration_seconds

\* 30 seconds were asked for and submitted, with segments ending at 30; the
\* service measured 31 and 31 is reported
C39_Witness ==
    /\ tool = "generate_bgm" /\ pc = "returned"
    /\ input[1].duration_seconds = <<Num(30)>>
    /\ output[1].soundraw_params.length = <<Num(30)>>
    /\ LastSegmentEnd(output[1].soundraw_params) = Num(30)
    /\ output[1].duration_seconds = Num(31)

====
